---- MODULE Spec2Model ----
(***************************************************************************)
(* EdgeWave Nexus: the fastest-success JSON-RPC race router (tryRpc,       *)
(* raceRpc, handleEdgeRpcRouter) and the DeFi aggregator with its tiered   *)
(* cache (computeDefi, handleEdgeDefiAggregator, edgeDefiAggregator).      *)
(*                                                                         *)
(* Conventions of the model                                                *)
(*  - A JSON value is a record with a field kind ("null", "scalar",        *)
(*    "object", "array").  An object lists its own property names in keys. *)
(*  - A body text is a record [parses, json]: JSON.parse succeeds on it    *)
(*    exactly when parses is TRUE and then yields json.                    *)
(*  - Time is in milliseconds.                                             *)
(***************************************************************************)
EXTENDS Integers, Sequences, FiniteSets, Bags, TLC

VARIABLES
    clsRes,        \* tryRpc on one response: the response fetch resolved with
    clsOut         \* tryRpc on one response: "none" before the call, then the outcome

VARIABLES
    raceNow,       \* Date.now() relative to the start of the race
    rpcUrls,       \* raceRpc's rpcUrls; a URL is named by its position 1..Len
    payload,       \* raceRpc's payloadText
    parentAborted, \* parentSignal.aborted
    att,           \* attempts[i]: the promise tryRpc(rpcUrls[i]) and its withTimeout
    firstSettled,  \* the attempt that settled first (0: none yet): Promise.race
    nSettled,      \* how many attempts have settled
    racePc,        \* raceRpc: "idle", "phase1" (await Promise.race),
                   \* "phase2" (await Promise.any), "returned", "failed"
    anyWinner,     \* the attempt that fulfils Promise.any (0: none yet)
    raceOut,       \* what raceRpc returned or threw
    pendingAtDowngrade, \* history: attempts in flight when phase 1 saw the failure
    rpcPc,         \* handleEdgeRpcRouter: "idle", "awaitRace", "done"; "direct":
                   \* raceRpc called by another caller
    rpcResp        \* the Response of handleEdgeRpcRouter

VARIABLES
    aggPc,         \* "ready": computeDefi is about to be called; "done": it returned
    aggPrev,       \* computeDefi: prev of the last run
    aggResps,      \* what each endpoint answered to the batch of the last run
    aggOut,        \* what raceRpc returned or threw in the last run
    aggNext,       \* computeDefi: next of the last run
    aggRpc         \* computeDefi: rpc of the last run is not null

VARIABLES
    edgeNow,       \* edgeDefiAggregator.js: Date.now()
    edgeCache,     \* edgeDefiAggregator.js: globalThis[CACHE_KEY]
    edgeReq,       \* edgeDefiAggregator.js: the requests and where each stands
    edgeResp       \* edgeDefiAggregator.js: the last response returned

VARIABLES
    defiNow,       \* Date.now() of the isolate that serves /edge/defi
    hasKv,         \* getKv(env) returns a store
    mem,           \* globalThis.__EDGEWAVE_MEM_CACHE at the key of the request
    kvStore,       \* the envelope the durable store holds at that key
    defiCount,     \* how many requests /edge/defi has received
    defiReqs,      \* the bag of requests to /edge/defi that stand at an await
    defiLog        \* the last two responses of /edge/defi

VARIABLES
    memCache,      \* globalThis.__EDGEWAVE_MEM_CACHE: the entry at each key
    memNow,        \* Date.now() of the isolate that owns memCache
    memRet         \* what the last call of memGet returned

clsVars == <<clsRes, clsOut>>

mapVars == <<memCache, memNow, memRet>>

defiVars == <<defiNow, hasKv, mem, kvStore, defiCount, defiReqs, defiLog>>

edgeVars == <<edgeNow, edgeCache, edgeReq, edgeResp>>

aggVars == <<aggPc, aggPrev, aggResps, aggOut, aggNext, aggRpc>>

raceVars == <<raceNow, rpcUrls, payload, parentAborted, att, firstSettled, nSettled, racePc,
              anyWinner, raceOut, pendingAtDowngrade, rpcPc, rpcResp>>

vars == <<clsVars, raceVars, aggVars, edgeVars, defiVars, mapVars>>

\* what the steps of one subsystem leave alone
RaceFrame == UNCHANGED <<clsVars, aggVars, edgeVars, defiVars, mapVars>>

ClsFrame == UNCHANGED <<raceVars, aggVars, edgeVars, defiVars, mapVars>>

AggFrame == UNCHANGED <<clsVars, raceVars, edgeVars, defiVars, mapVars>>

EdgeFrame == UNCHANGED <<clsVars, raceVars, aggVars, defiVars, mapVars>>

DefiFrame == UNCHANGED <<clsVars, raceVars, aggVars, edgeVars, mapVars>>

MapFrame == UNCHANGED <<clsVars, raceVars, aggVars, edgeVars, defiVars>>

-----------------------------------------------------------------------------
(* JSON values and body texts                                              *)

Max2(a, b) == IF a >= b THEN a ELSE b

JNull == [kind |-> "null"]

JScalar(n) == [kind |-> "scalar", n |-> n]

JObject(keys, id, result) == [kind |-> "object", keys |-> keys, id |-> id, result |-> result]

JArray(items) == [kind |-> "array", items |-> items]

\* values of a "result" property
ResNull == [type |-> "null"]

ResNumber(n) == [type |-> "number", n |-> n]

\* a string "0x<digits>" (has0x) or "<digits>"; a digit 16 is a non-hex character
ResString(has0x, digits) == [type |-> "string", has0x |-> has0x, digits |-> digits]

RpcResult(id, result) == JObject({"jsonrpc", "id", "result"}, id, result)

RpcError(id) == JObject({"jsonrpc", "id", "error"}, id, ResNull)

RpcResultAndError(id, result) == JObject({"jsonrpc", "id", "result", "error"}, id, result)

TextOf(json) == [parses |-> TRUE, json |-> json]

GarbageText == [parses |-> FALSE, json |-> JNull]

Response(status, text) == [status |-> status, text |-> text]

-----------------------------------------------------------------------------
(* tryRpc: classification of one upstream response                         *)

\* Response.ok of the fetch API
ResOk(res) == res.status >= 200 /\ res.status <= 299

\* x && typeof x === "object" && "error" in x
ErrorInElement(x) == x.kind = "object" /\ "error" \in x.keys

hasJsonRpcError_ResultRequired(json) ==
    IF json.kind = "array"
    THEN \E i \in 1..Len(json.items) : ErrorInElement(json.items[i])
    ELSE json.kind # "object" \/ "error" \in json.keys \/ json.result.type = "null"

hasJsonRpcError(json) ==
    IF json.kind = "array"
    THEN \E i \in 1..Len(json.items) : ErrorInElement(json.items[i])
    ELSE ErrorInElement(json)

Fulfilled(url, text, elapsedMs) ==
    [ok |-> TRUE, url |-> url, text |-> text, elapsedMs |-> elapsedMs,
     message |-> "", status |-> 0]

Rejected(url, message, status) ==
    [ok |-> FALSE, url |-> url, text |-> GarbageText, elapsedMs |-> 0,
     message |-> message, status |-> status]

\* the part of tryRpc that runs once fetch has resolved with res
tryRpc(url, res, elapsedMs) ==
    IF ~ResOk(res) THEN Rejected(url, "HTTP", res.status)
    ELSE IF ~res.text.parses THEN Rejected(url, "Invalid JSON", 0)
    ELSE IF hasJsonRpcError(res.text.json) THEN Rejected(url, "JSON-RPC error", 0)
    ELSE Fulfilled(url, res.text, elapsedMs)

\* "error" in x of the local router: the operator throws a TypeError when x is
\* not an object (null, a number, a string, a boolean); an array is an object
ErrorInThrows(x) == x.kind \in {"null", "scalar"}

ErrorIn(x) == x.kind = "object" /\ "error" \in x.keys

\* Array.isArray(json) ? json.some((x) => "error" in x) : "error" in json of the
\* local router: "throws", "error" or "none"; some stops at the first element
\* that has the key
hasJsonRpcErrorLocal(json) ==
    IF json.kind = "array"
    THEN LET Hits == {i \in 1..Len(json.items) : ErrorIn(json.items[i])}
             Throws == {i \in 1..Len(json.items) : ErrorInThrows(json.items[i])}
         IN IF Throws # {} /\ \A i \in Hits : \E j \in Throws : j < i THEN "throws"
            ELSE IF Hits # {} THEN "error"
            ELSE "none"
    ELSE IF ErrorInThrows(json) THEN "throws"
    ELSE IF ErrorIn(json) THEN "error"
    ELSE "none"

\* the part of the local router's tryRpc that runs once fetch has resolved with
\* res: await res.json() comes before the test of res.ok
tryRpcLocal(url, res, elapsedMs) ==
    IF ~res.text.parses THEN Rejected(url, "SyntaxError", 0)
    ELSE IF ~ResOk(res) THEN Rejected(url, "HTTP", res.status)
    ELSE IF hasJsonRpcErrorLocal(res.text.json) = "throws" THEN Rejected(url, "TypeError", 0)
    ELSE IF hasJsonRpcErrorLocal(res.text.json) = "error"
    THEN Rejected(url, "JSON-RPC error", 0)
    ELSE Fulfilled(url, res.text, elapsedMs)

-----------------------------------------------------------------------------
(* Inputs of the classification                                            *)

Hex0 == ResString(TRUE, <<0>>)

HexBlock == ResString(TRUE, <<1, 2, 10, 11>>)

HttpStatuses == {200, 201, 299, 300, 404, 500, 503}

ClassifyJsons ==
    { JNull, JScalar(0), JScalar(7),
      JObject({}, 0, ResNull),
      RpcResult(1, HexBlock), RpcResult(1, Hex0), RpcResult(1, ResNull),
      RpcResult(1, ResNumber(0)),
      RpcError(1), RpcResultAndError(1, HexBlock),
      JArray(<<>>),
      JArray(<<RpcResult(1, HexBlock)>>),
      JArray(<<RpcResult(1, HexBlock), RpcResult(2, ResNull)>>),
      JArray(<<RpcResult(1, HexBlock), RpcError(2)>>),
      JArray(<<RpcError(1), RpcResult(2, HexBlock)>>),
      JArray(<<JNull>>),
      JArray(<<JNull, RpcError(2)>>),
      JArray(<<JScalar(0), RpcResult(2, ResNumber(0))>>),
      JArray(<<JArray(<<RpcError(1)>>)>>) }

ClassifyTexts == {GarbageText} \cup {TextOf(j) : j \in ClassifyJsons}

ClassifyResponses == {Response(s, t) : s \in HttpStatuses, t \in ClassifyTexts}

ClsInit ==
    /\ clsRes \in ClassifyResponses
    /\ clsOut = "none"

ClsIdle ==
    /\ clsRes = Response(200, GarbageText)
    /\ clsOut = "none"

\* one call of tryRpc whose fetch resolved with clsRes
TryRpcCall ==
    /\ clsOut = "none"
    /\ clsOut' = (IF tryRpc(1, clsRes, 0).ok THEN "success" ELSE "failure")
    /\ UNCHANGED clsRes
    /\ ClsFrame

-----------------------------------------------------------------------------
(* raceRpc: withTimeout, the attempts, Promise.race then Promise.any        *)

MaxEndpoints == 3

TIMEOUT_MS == 4000

TickMs == TIMEOUT_MS

NoOutcome == Rejected(0, "", 0)

NoResponse == Response(0, GarbageText)

\* withTimeout(4000, parentSignal) followed by the call of fetch: the timer is
\* armed, the listener is added to parentSignal, the controller is not aborted
NewAttempt ==
    [st |-> "pending", out |-> NoOutcome, aborted |-> FALSE, timer |-> TRUE,
     listener |-> TRUE, gotRes |-> FALSE, res |-> NoResponse]

\* t.dispose() in the finally of tryRpc, with the settlement of the promise
Settle_NoDispose(a, outcome) ==
    [a EXCEPT !.st = IF outcome.ok THEN "fulfilled" ELSE "rejected", !.out = outcome]

Settle(a, outcome) ==
    [a EXCEPT !.st = IF outcome.ok THEN "fulfilled" ELSE "rejected",
              !.out = outcome, !.timer = FALSE, !.listener = FALSE]

Attempts == 1..Len(rpcUrls)

PendingSet == {i \in Attempts : att[i].st = "pending"}

FulfilledSet == {i \in Attempts : att[i].st = "fulfilled"}

RejectedSet == {i \in Attempts : att[i].st = "rejected"}

MinOf(S) == CHOOSE x \in S : \A y \in S : x <= y

\* getRpcUrls(env): always three endpoints
getRpcUrls == <<1, 2, 3>>

RaceSuccess(out) ==
    [ok |-> TRUE, url |-> out.url, text |-> out.text, elapsedMs |-> out.elapsedMs,
     errors |-> <<>>]

\* the AggregateError of Promise.any: errors[i] is the rejection of attempts[i]
AggregateError(a) ==
    [ok |-> FALSE, url |-> 0, text |-> GarbageText, elapsedMs |-> 0,
     errors |-> [i \in DOMAIN a |-> a[i].out]]

NoRaceOut == AggregateError(<<>>)

\* Promise.race(attempts): settles as the first attempt to settle; later
\* settlements do not change it
PromiseRaceFirst_LatestSettled(first, i) == i

PromiseRaceFirst(first, i) == IF first = 0 THEN i ELSE first

RaceSuccess_FirstUrl(out) ==
    [ok |-> TRUE, url |-> 1, text |-> out.text, elapsedMs |-> out.elapsedMs,
     errors |-> <<>>]

\* return fastestSettled / return firstSuccess: the winning attempt's value
RaceReturn(out) == RaceSuccess(out)

\* Promise.any(attempts) when called: the reactions of the attempts already
\* fulfilled are queued in index order, so the lowest index wins; 0: none yet
PromiseAnyAtCall_None(fulfilled) == 0

PromiseAnyAtCall(fulfilled) == IF fulfilled = {} THEN 0 ELSE MinOf(fulfilled)

\* Promise.any rejects once every attempt has rejected
PromiseAnyRejects_NonePending(a) ==
    /\ \E i \in DOMAIN a : a[i].st = "rejected"
    /\ \A i \in DOMAIN a : a[i].st # "fulfilled"

PromiseAnyRejects(a) == \A i \in DOMAIN a : a[i].st = "rejected"

\* const attempts = rpcUrls.map((u) => tryRpc(u, payloadText, parentSignal))
\* up to the first await of raceRpc
raceRpcStart_TwoCallsPerEndpoint(urls, payloadText, aborted) ==
    /\ racePc = "idle"
    /\ rpcUrls' = urls
    /\ payload' = payloadText
    /\ parentAborted' = aborted
    /\ att' = [i \in 1..(2 * Len(urls)) |-> NewAttempt]
    /\ racePc' = "phase1"
    /\ raceNow' = 0
    /\ UNCHANGED <<firstSettled, nSettled, anyWinner, raceOut, pendingAtDowngrade>>

raceRpcStart(urls, payloadText, aborted) ==
    /\ racePc = "idle"
    /\ rpcUrls' = urls
    /\ payload' = payloadText
    /\ parentAborted' = aborted
    /\ att' = [i \in 1..Len(urls) |-> NewAttempt]
    /\ racePc' = "phase1"
    /\ raceNow' = 0
    /\ UNCHANGED <<firstSettled, nSettled, anyWinner, raceOut, pendingAtDowngrade>>

\* an attempt settles: its promise, the settle order, Promise.any's first fulfilment
AttemptSettles(i, a, outcome) ==
    /\ RaceFrame
    /\ att' = [att EXCEPT ![i] = Settle(a, outcome)]
    /\ firstSettled' = PromiseRaceFirst(firstSettled, i)
    /\ nSettled' = nSettled + 1
    /\ anyWinner' = IF racePc = "phase2" /\ anyWinner = 0 /\ outcome.ok
                    THEN i ELSE anyWinner
    /\ UNCHANGED <<raceNow, rpcUrls, payload, parentAborted, racePc, raceOut,
                   pendingAtDowngrade, rpcPc, rpcResp>>

\* fetch resolves with res and the body is read: tryRpc classifies it
FetchRespond(i, res) ==
    /\ i \in Attempts
    /\ att[i].st = "pending"
    /\ ~att[i].aborted
    /\ AttemptSettles(i, [att[i] EXCEPT !.gotRes = TRUE, !.res = res],
                      tryRpc(i, res, raceNow))

\* fetch rejects: DNS, connection or TLS failure
FetchFail(i) ==
    /\ i \in Attempts
    /\ att[i].st = "pending"
    /\ ~att[i].aborted
    /\ AttemptSettles(i, att[i], Rejected(i, "fetch failed", 0))

\* fetch (or the body read) rejects because t.signal is aborted
FetchAbort(i) ==
    /\ i \in Attempts
    /\ att[i].st = "pending"
    /\ att[i].aborted
    /\ AttemptSettles(i, att[i], Rejected(i, "AbortError", 0))

\* setTimeout(() => controller.abort(), ms) fires
TimerFire_AbortsNothing(i) ==
    /\ RaceFrame
    /\ i \in Attempts
    /\ att[i].timer
    /\ raceNow >= TIMEOUT_MS
    /\ att' = [att EXCEPT ![i].timer = FALSE]
    /\ UNCHANGED <<raceNow, rpcUrls, payload, parentAborted, firstSettled, nSettled, racePc,
                   anyWinner, raceOut, pendingAtDowngrade, rpcPc, rpcResp>>

TimerFire(i) ==
    /\ RaceFrame
    /\ i \in Attempts
    /\ att[i].timer
    /\ raceNow >= TIMEOUT_MS
    /\ att' = [att EXCEPT ![i].aborted = TRUE, ![i].timer = FALSE]
    /\ UNCHANGED <<raceNow, rpcUrls, payload, parentAborted, firstSettled, nSettled, racePc,
                   anyWinner, raceOut, pendingAtDowngrade, rpcPc, rpcResp>>

\* parentSignal fires "abort": every onAbort still listening aborts its controller
ParentAbort_FirstListenerOnly ==
    /\ RaceFrame
    /\ racePc # "idle"
    /\ ~parentAborted
    /\ parentAborted' = TRUE
    /\ att' = [i \in Attempts |->
                 IF att[i].listener /\ i = 1
                 THEN [att[i] EXCEPT !.aborted = TRUE, !.listener = FALSE]
                 ELSE att[i]]
    /\ UNCHANGED <<raceNow, rpcUrls, payload, firstSettled, nSettled, racePc, anyWinner,
                   raceOut, pendingAtDowngrade, rpcPc, rpcResp>>

ParentAbort ==
    /\ RaceFrame
    /\ racePc # "idle"
    /\ ~parentAborted
    /\ parentAborted' = TRUE
    /\ att' = [i \in Attempts |->
                 IF att[i].listener
                 THEN [att[i] EXCEPT !.aborted = TRUE, !.listener = FALSE]
                 ELSE att[i]]
    /\ UNCHANGED <<raceNow, rpcUrls, payload, firstSettled, nSettled, racePc, anyWinner,
                   raceOut, pendingAtDowngrade, rpcPc, rpcResp>>

\* time passes while an attempt is in flight, up to the timers' deadline
RaceTick ==
    /\ RaceFrame
    /\ PendingSet # {}
    /\ raceNow < TIMEOUT_MS
    /\ raceNow' = raceNow + TickMs
    /\ UNCHANGED <<rpcUrls, payload, parentAborted, att, firstSettled, nSettled, racePc,
                   anyWinner, raceOut, pendingAtDowngrade, rpcPc, rpcResp>>

\* raceRpc resumes from await Promise.race(attempts): return, or catch and
\* call Promise.any(attempts)
raceRpcPhase1_NoDowngrade ==
    /\ RaceFrame
    /\ racePc = "phase1"
    /\ firstSettled # 0
    /\ LET first == firstSettled
       IN IF att[first].st = "fulfilled"
          THEN /\ racePc' = "returned"
               /\ raceOut' = RaceReturn(att[first].out)
               /\ UNCHANGED <<anyWinner, pendingAtDowngrade>>
          ELSE /\ racePc' = "failed"
               /\ raceOut' = AggregateError(att)
               /\ pendingAtDowngrade' = PendingSet
               /\ UNCHANGED anyWinner
    /\ UNCHANGED <<raceNow, rpcUrls, payload, parentAborted, att, firstSettled, nSettled,
                   rpcPc, rpcResp>>

raceRpcPhase1 ==
    /\ RaceFrame
    /\ racePc = "phase1"
    /\ firstSettled # 0
    /\ LET first == firstSettled
       IN IF att[first].st = "fulfilled"
          THEN /\ racePc' = "returned"
               /\ raceOut' = RaceReturn(att[first].out)
               /\ UNCHANGED <<anyWinner, pendingAtDowngrade>>
          ELSE /\ racePc' = "phase2"
               /\ anyWinner' = PromiseAnyAtCall(FulfilledSet)
               /\ pendingAtDowngrade' = PendingSet
               /\ UNCHANGED raceOut
    /\ UNCHANGED <<raceNow, rpcUrls, payload, parentAborted, att, firstSettled, nSettled,
                   rpcPc, rpcResp>>

\* raceRpc resumes from await Promise.any(attempts) with the first success
raceRpcPhase2Return ==
    /\ RaceFrame
    /\ racePc = "phase2"
    /\ anyWinner # 0
    /\ racePc' = "returned"
    /\ raceOut' = RaceReturn(att[anyWinner].out)
    /\ UNCHANGED <<raceNow, rpcUrls, payload, parentAborted, att, firstSettled, nSettled,
                   anyWinner, pendingAtDowngrade, rpcPc, rpcResp>>

\* await Promise.any(attempts) throws the AggregateError out of raceRpc
raceRpcPhase2Throw ==
    /\ RaceFrame
    /\ racePc = "phase2"
    /\ anyWinner = 0
    /\ PromiseAnyRejects(att)
    /\ racePc' = "failed"
    /\ raceOut' = AggregateError(att)
    /\ UNCHANGED <<raceNow, rpcUrls, payload, parentAborted, att, firstSettled, nSettled,
                   anyWinner, pendingAtDowngrade, rpcPc, rpcResp>>

-----------------------------------------------------------------------------
(* handleEdgeRpcRouter: POST /edge/rpc                                      *)

RpcRequestJson(id) == JObject({"jsonrpc", "id", "method", "params"}, id, ResNull)

\* id = Array.isArray(parsed) ? parsed[0]?.id : parsed?.id, then id ?? null (0)
RequestId(parsed) ==
    IF parsed.kind = "array"
    THEN IF Len(parsed.items) > 0 /\ parsed.items[1].kind = "object"
         THEN parsed.items[1].id ELSE 0
    ELSE IF parsed.kind = "object" THEN parsed.id ELSE 0

\* JSON.stringify(JSON.parse(body)): the text that parses to the same value
JsonStringify(json) == TextOf(json)

\* new Response(jsonRpcError(id, message), {status})
ErrorResponse_StringOfErr(status, id, message) ==
    [status |-> status, body |-> JsonStringify(RpcError(id)),
     message |-> IF status = 500 THEN "AggregateError: All promises were rejected"
                 ELSE message,
     fastest |-> 0, elapsedMs |-> 0]

ErrorResponse(status, id, message) ==
    [status |-> status, body |-> JsonStringify(RpcError(id)), message |-> message,
     fastest |-> 0, elapsedMs |-> 0]

NoRpcResp == [status |-> 0, body |-> GarbageText, message |-> "", fastest |-> 0,
              elapsedMs |-> 0]

RequestMethods == {"POST", "GET", "OPTIONS"}

RequestBodies ==
    { GarbageText,
      TextOf(RpcRequestJson(7)),
      TextOf(JArray(<<RpcRequestJson(8), RpcRequestJson(9)>>)),
      TextOf(JScalar(7)) }

\* handleEdgeRpcRouter up to await raceRpc(...)
handleEdgeRpcRouter(method, body, aborted) ==
    /\ RaceFrame
    /\ rpcPc = "idle"
    /\ IF method = "OPTIONS"
       THEN /\ rpcResp' = [NoRpcResp EXCEPT !.status = 204]
            /\ rpcPc' = "done"
            /\ UNCHANGED <<raceNow, rpcUrls, payload, parentAborted, att, racePc>>
       ELSE IF method # "POST"
       THEN /\ rpcResp' = ErrorResponse(405, 0, "METHOD_NOT_ALLOWED")
            /\ rpcPc' = "done"
            /\ UNCHANGED <<raceNow, rpcUrls, payload, parentAborted, att, racePc>>
       ELSE IF ~body.parses
       THEN /\ rpcResp' = ErrorResponse(400, 0, "INVALID_JSON")
            /\ rpcPc' = "done"
            /\ UNCHANGED <<raceNow, rpcUrls, payload, parentAborted, att, racePc>>
       ELSE /\ raceRpcStart(getRpcUrls, JsonStringify(body.json), aborted)
            /\ rpcPc' = "awaitRace"
            /\ UNCHANGED rpcResp
    /\ UNCHANGED <<firstSettled, nSettled, anyWinner, raceOut, pendingAtDowngrade>>

\* handleEdgeRpcRouter resumes from await raceRpc(...): 200 with the winner's
\* body, or the catch: 500 RPC_ROUTING_FAILED
handleEdgeRpcRouterResume ==
    /\ RaceFrame
    /\ rpcPc = "awaitRace"
    /\ racePc \in {"returned", "failed"}
    /\ rpcPc' = "done"
    /\ rpcResp' = IF raceOut.ok
                  THEN [status |-> 200, body |-> raceOut.text, message |-> "",
                        fastest |-> raceOut.url, elapsedMs |-> raceOut.elapsedMs]
                  ELSE ErrorResponse(500, RequestId(payload.json), "RPC_ROUTING_FAILED")
    /\ UNCHANGED <<raceNow, rpcUrls, payload, parentAborted, att, firstSettled, nSettled,
                   racePc, anyWinner, raceOut, pendingAtDowngrade>>

\* raceRpc called directly (as computeDefi does) with n endpoints
raceRpcDirect(n, body, aborted) ==
    /\ RaceFrame
    /\ rpcPc = "idle"
    /\ raceRpcStart([i \in 1..n |-> i], body, aborted)
    /\ rpcPc' = "direct"
    /\ UNCHANGED rpcResp

RaceResponses ==
    { Response(200, TextOf(RpcResult(1, HexBlock))),
      Response(200, TextOf(RpcResult(1, ResNull))),
      Response(200, TextOf(RpcError(1))),
      Response(500, TextOf(RpcResult(1, HexBlock))) }

RaceIdle ==
    /\ raceNow = 0
    /\ rpcUrls = <<>>
    /\ payload = GarbageText
    /\ parentAborted = FALSE
    /\ att = <<>>
    /\ firstSettled = 0
    /\ nSettled = 0
    /\ racePc = "idle"
    /\ anyWinner = 0
    /\ raceOut = NoRaceOut
    /\ pendingAtDowngrade = {}
    /\ rpcPc = "idle"
    /\ rpcResp = NoRpcResp


-----------------------------------------------------------------------------
(* BigInt: a sequence of base-1000 limbs, least significant first, without  *)
(* leading zero limbs (0 is the empty sequence)                            *)

LimbBase == 1000

RECURSIVE BigNorm(_)
BigNorm(x) ==
    IF x = <<>> THEN <<>>
    ELSE IF x[Len(x)] = 0 THEN BigNorm(SubSeq(x, 1, Len(x) - 1)) ELSE x

\* x * k + c for a small k and carry c
RECURSIVE BigMulAdd(_, _, _)
BigMulAdd(x, k, c) ==
    IF x = <<>>
    THEN IF c = 0 THEN <<>> ELSE <<c % LimbBase>> \o BigMulAdd(<<>>, k, c \div LimbBase)
    ELSE LET v == x[1] * k + c
         IN <<v % LimbBase>> \o BigMulAdd(Tail(x), k, v \div LimbBase)

RECURSIVE BigAdd(_, _, _)
BigAdd(x, y, c) ==
    IF x = <<>> /\ y = <<>>
    THEN IF c = 0 THEN <<>> ELSE <<c>>
    ELSE LET a == IF x = <<>> THEN 0 ELSE x[1]
             b == IF y = <<>> THEN 0 ELSE y[1]
             v == a + b + c
         IN <<v % LimbBase>>
            \o BigAdd(IF x = <<>> THEN <<>> ELSE Tail(x),
                      IF y = <<>> THEN <<>> ELSE Tail(y), v \div LimbBase)

\* totalSupply * exchangeRate
RECURSIVE BigMul(_, _)
BigMul(x, y) ==
    IF y = <<>> THEN <<>>
    ELSE BigNorm(BigAdd(BigMulAdd(x, y[1], 0), <<0>> \o BigMul(x, Tail(y)), 0))

\* value / 10n ** e for an exponent e that is a multiple of 3: BigInt division
\* truncates
BigDivPow10(x, e) == SubSeq(x, (e \div 3) + 1, Len(x))

\* Number(x), exact below 10^9
RECURSIVE BigToNumber(_)
BigToNumber(x) == IF x = <<>> THEN 0 ELSE x[1] + LimbBase * BigToNumber(Tail(x))

\* BigInt("0x" + digits)
RECURSIVE HexDigitsToBig(_, _)
HexDigitsToBig(digits, acc) ==
    IF digits = <<>> THEN acc
    ELSE HexDigitsToBig(Tail(digits), BigMulAdd(acc, 16, digits[1]))

Thrown == [ok |-> FALSE, value |-> <<>>]

\* hexToBigInt(hex): throws unless hex is a string "0x" + hex digits
hexToBigInt_ZeroThrows(hex) ==
    IF hex.type # "string" THEN Thrown
    ELSE IF ~hex.has0x THEN Thrown
    ELSE IF hex.digits = <<>> \/ \E k \in DOMAIN hex.digits : hex.digits[k] > 15
    THEN Thrown
    ELSE IF HexDigitsToBig(hex.digits, <<>>) = <<>> THEN Thrown
    ELSE [ok |-> TRUE, value |-> HexDigitsToBig(hex.digits, <<>>)]

hexToBigInt(hex) ==
    IF hex.type # "string" THEN Thrown
    ELSE IF ~hex.has0x THEN Thrown
    ELSE IF hex.digits = <<>> \/ \E k \in DOMAIN hex.digits : hex.digits[k] > 15
    THEN Thrown
    ELSE [ok |-> TRUE, value |-> HexDigitsToBig(hex.digits, <<>>)]

\* bigIntToNumberSafe(value, 10n ** e): the quotient is finite, nothing throws
bigIntToNumberSafe(value, e) == BigToNumber(BigDivPow10(value, e))

-----------------------------------------------------------------------------
(* Snapshots                                                               *)

Sources == {"uniswap_v3", "aave", "compound"}

Metric(tvl, vol, health, notes) ==
    [tvlUsdApprox |-> tvl, volumeUsdApprox24h |-> vol, health |-> health, notes |-> notes]

NoCache == [hit |-> FALSE, layer |-> "none"]

\* buildEmpty(); blockNumber -1: the property is absent
buildEmpty_HealthUnset(now) ==
    [isNull |-> FALSE, updatedAt |-> now, blockNumber |-> -1,
     protocols |-> [p \in Sources |-> Metric(0, 0, "", "no data")],
     cache |-> NoCache]

buildEmpty(now) ==
    [isNull |-> FALSE, updatedAt |-> now, blockNumber |-> -1,
     protocols |-> [p \in Sources |-> Metric(0, 0, "degraded", "no data")],
     cache |-> NoCache]

\* null where a snapshot is expected
NullSnapshot == [buildEmpty(0) EXCEPT !.isNull = TRUE]

\* { ...m, health: "degraded", notes }
MarkDegraded_Reset(m, notes) == Metric(0, 0, "degraded", notes)

MarkDegraded(m, notes) == [m EXCEPT !.health = "degraded", !.notes = notes]

Abs(x) == IF x < 0 THEN 0 - x ELSE x

\* Math.abs(tvl - prevTvl) * w, in hundredths: w100 is 100 * w
Volume(tvl, prevTvl, w100) == Abs(tvl - prevTvl) * w100

\* new Map(results.map((r) => [r?.id, r])).get(id): the last element with that id
ElemId(r) == IF r.kind = "object" /\ "id" \in r.keys THEN r.id ELSE -1

MapHas(results, id) == \E k \in DOMAIN results : ElemId(results[k]) = id

MapGet(results, id) ==
    results[CHOOSE k \in DOMAIN results :
               /\ ElemId(results[k]) = id
               /\ \A j \in DOMAIN results : ElemId(results[j]) = id => j <= k]

NoResult == [ok |-> FALSE, result |-> ResNull]

\* getBatchResult(map, id): throws on a missing id and on an error entry;
\* item.result is undefined (here ResNull) when the entry has no result
getBatchResult(results, id) ==
    IF ~MapHas(results, id) THEN NoResult
    ELSE IF "error" \in MapGet(results, id).keys THEN NoResult
    ELSE IF "result" \in MapGet(results, id).keys
    THEN [ok |-> TRUE, result |-> MapGet(results, id).result]
    ELSE [ok |-> TRUE, result |-> ResNull]

\* hexToBigInt(getBatchResult(map, id))
BatchBigInt(results, id) ==
    IF getBatchResult(results, id).ok
    THEN hexToBigInt(getBatchResult(results, id).result)
    ELSE Thrown

\* next.blockNumber = Number(hexToBigInt(getBatchResult(map, 1))), or unchanged
blockNumberOf(results, cur) ==
    IF BatchBigInt(results, 1).ok THEN BigToNumber(BatchBigInt(results, 1).value) ELSE cur

\* the try/catch for uniswap_v3: liquidity() / 10^12, weight 0.25
uniswapMetric(results, base, cur) ==
    LET liq == BatchBigInt(results, 2)
        tvl == bigIntToNumberSafe(liq.value, 12)
    IN IF liq.ok
       THEN Metric(tvl, Volume(tvl, base.protocols["uniswap_v3"].tvlUsdApprox, 25),
                   "ok", "pool.liquidity()")
       ELSE MarkDegraded(cur, "uniswap failed")

\* the try/catch for aave: totalSupply() / 10^6, weight 0.2
aaveMetric(results, base, cur) ==
    LET supply == BatchBigInt(results, 3)
        tvl == bigIntToNumberSafe(supply.value, 6)
    IN IF supply.ok
       THEN Metric(tvl, Volume(tvl, base.protocols["aave"].tvlUsdApprox, 20),
                   "ok", "aUSDC.totalSupply()")
       ELSE MarkDegraded(cur, "aave failed")

\* the try/catch for compound: totalSupply() * exchangeRateStored() / 10^18 / 10^6,
\* weight 0.15
compoundMetric(results, base, cur) ==
    LET totalSupply == BatchBigInt(results, 4)
        exchangeRate == BatchBigInt(results, 5)
        underlying == BigDivPow10(BigMul(totalSupply.value, exchangeRate.value), 18)
        tvl == bigIntToNumberSafe(underlying, 6)
    IN IF totalSupply.ok /\ exchangeRate.ok
       THEN Metric(tvl, Volume(tvl, base.protocols["compound"].tvlUsdApprox, 15),
                   "ok", "cUSDC.totalSupply()*exchangeRateStored()")
       ELSE MarkDegraded(cur, "compound failed")

\* the catch of the await of raceRpc: every source is marked degraded and next
\* is returned
raceRpcFailed_Rethrown(base, next) == NullSnapshot

raceRpcFailed(base, next) ==
    [next EXCEPT !.protocols =
        [p \in Sources |-> MarkDegraded(base.protocols[p], "batch failed")]]

\* const next = { ...base, updatedAt: new Date().toISOString(), source, chainId,
\* protocols: { ...base.protocols } }
stampedCopy_BlockFromClock(base, now) == [base EXCEPT !.updatedAt = now, !.blockNumber = now]

stampedCopy(base, now) == [base EXCEPT !.updatedAt = now]

\* computeDefi({request, env, prev}) given what raceRpc returned or threw:
\* [next, rpc] where rpc is TRUE for a non-null rpc
computeDefi(prev, now, out) ==
    LET base == IF prev.isNull THEN buildEmpty(now) ELSE prev
        next == stampedCopy(base, now)
    IN IF ~out.ok
       THEN [next |-> raceRpcFailed(base, next), rpc |-> FALSE]
       ELSE IF ~out.text.parses \/ out.text.json.kind # "array"
       THEN [next |-> next, rpc |-> FALSE]
       ELSE LET results == out.text.json.items
            IN [next |->
                  [next EXCEPT
                     !.blockNumber = blockNumberOf(results, base.blockNumber),
                     !.protocols =
                        [p \in Sources |->
                           IF p = "uniswap_v3"
                           THEN uniswapMetric(results, base, base.protocols[p])
                           ELSE IF p = "aave"
                           THEN aaveMetric(results, base, base.protocols[p])
                           ELSE compoundMetric(results, base, base.protocols[p])]],
                rpc |-> TRUE]

\* what raceRpc can return or throw when the endpoints answer resps: the value of
\* any attempt that tryRpc fulfils, or the aggregate error when there is none
RaceOutcomes(resps) ==
    LET oks == {i \in DOMAIN resps : tryRpc(i, resps[i], 0).ok}
    IN IF oks = {}
       THEN {AggregateError([i \in DOMAIN resps |-> [out |-> tryRpc(i, resps[i], 0)]])}
       ELSE {RaceReturn(tryRpc(i, resps[i], 0)) : i \in oks}

-----------------------------------------------------------------------------
(* Batch responses and the runs of computeDefi                             *)

BatchIds == 1..5

\* sub-call results "0x<hex>", profile A: block 4779, liquidity 5 * 10^12,
\* aUSDC supply 3 * 10^6, cUSDC supply 2 * 10^10 at rate 2 * 10^14
HexA ==
    <<HexBlock,
      ResString(TRUE, <<4, 8, 12, 2, 7, 3, 9, 5, 0, 0, 0>>),
      ResString(TRUE, <<2, 13, 12, 6, 12, 0>>),
      ResString(TRUE, <<4, 10, 8, 1, 7, 12, 8, 0, 0>>),
      ResString(TRUE, <<11, 5, 14, 6, 2, 0, 15, 4, 8, 0, 0, 0>>)>>

\* profile B: liquidity 7 * 10^12, aUSDC supply 3000999, cUSDC supply 3 * 10^10
\* at rate 3 * 10^14
HexB ==
    <<HexBlock,
      ResString(TRUE, <<6, 5, 13, 13, 0, 8, 3, 7, 0, 0, 0>>),
      ResString(TRUE, <<2, 13, 12, 10, 10, 7>>),
      ResString(TRUE, <<6, 15, 12, 2, 3, 10, 12, 0, 0>>),
      ResString(TRUE, <<1, 1, 0, 13, 9, 3, 1, 6, 14, 12, 0, 0, 0>>)>>

\* results that do not decode: no 0x prefix, null, a non-hex character, "0x", a number
BadHex ==
    {ResString(FALSE, <<2, 13>>), ResNull, ResString(TRUE, <<2, 16>>),
     ResString(TRUE, <<>>), ResNumber(5)}

RECURSIVE SeqOfSet(_)
SeqOfSet(S) ==
    IF S = {} THEN <<>>
    ELSE LET x == MinOf(S) IN <<x>> \o SeqOfSet(S \ {x})

\* a batch response with the entries for the ids in present, entry id -> e[id]
BatchOf(present, e) == JArray([k \in 1..Cardinality(present) |-> e[SeqOfSet(present)[k]]])

ResultsOf(hex) == [id \in BatchIds |-> RpcResult(id, hex[id])]

\* every subset of the ids missing; one entry an error; one result undecodable;
\* one result "0x0"; a duplicate id; bodies that are not arrays
AggBodies ==
    {BatchOf(S, ResultsOf(HexA)) : S \in SUBSET BatchIds}
    \cup {BatchOf(BatchIds, [ResultsOf(HexA) EXCEPT ![id] = RpcResult(id, Hex0)]) :
            id \in BatchIds \ {1}}
    \cup {BatchOf(BatchIds, ResultsOf(HexB))}
    \cup {BatchOf(BatchIds, [ResultsOf(HexA) EXCEPT ![id] = RpcError(id)]) : id \in BatchIds}
    \cup {BatchOf(BatchIds, [ResultsOf(HexA) EXCEPT ![id] = RpcResult(id, bad)]) :
            id \in {2, 5}, bad \in BadHex}
    \cup {JArray(<<RpcResult(2, HexA[2]), RpcResult(2, HexB[2]), JNull, JScalar(7)>>),
          RpcResult(1, HexBlock), JScalar(7)}

\* the endpoints in up answer the batch with body b, the others with a 503
AggResponses(b, up) ==
    [i \in DOMAIN getRpcUrls |->
        IF i \in up THEN Response(200, TextOf(b)) ELSE Response(503, GarbageText)]

\* which endpoints are up: all, all but the first, the last, none
UpSets == {{i \in DOMAIN getRpcUrls : i > k} : k \in 0..Len(getRpcUrls)}

\* snapshots left by an earlier call: none, or what computeDefi made of a batch
PrevBodies ==
    {BatchOf(BatchIds, ResultsOf(HexA)), BatchOf(BatchIds, ResultsOf(HexB)),
     BatchOf(BatchIds \ {3}, ResultsOf(HexA))}

PrevSnapshots ==
    {NullSnapshot}
    \cup {computeDefi(NullSnapshot, 0, RaceReturn(Fulfilled(1, TextOf(b), 0))).next :
            b \in PrevBodies}

AggIdle ==
    /\ aggPc = "ready"
    /\ aggPrev = NullSnapshot
    /\ aggResps = <<>>
    /\ aggOut = NoRaceOut
    /\ aggNext = NullSnapshot
    /\ aggRpc = FALSE

\* Date.now() during the call, the earlier snapshots being of time 0
AggNow == 1

\* one call computeDefi({request, env, prev}), prev being the snapshot the call
\* before left (null when there is none)
computeDefiCall(b, up) ==
    /\ aggPc = "ready"
    /\ aggPc' = "done"
    /\ aggPrev' = aggNext
    /\ aggResps' = AggResponses(b, up)
    /\ \E out \in RaceOutcomes(aggResps') :
          LET r == computeDefi(aggNext, AggNow, out)
          IN /\ aggOut' = out
             /\ aggNext' = r.next
             /\ aggRpc' = r.rpc
    /\ AggFrame

-----------------------------------------------------------------------------
(* edgeDefiAggregator.js: the aggregator that calls the deployed router     *)

MaxEdgeRequests == 2

MaxEdgeTicks == 1

EDGE_TTL_MS == 30000

EdgeTickMs == EDGE_TTL_MS

\* rpcViaEdgeRouter once fetch has resolved with res: [ok, json], ok FALSE when it
\* throws
rpcViaEdgeRouter(res) ==
    IF ~res.text.parses THEN [ok |-> FALSE, json |-> JNull]
    ELSE IF ~ResOk(res) \/ hasJsonRpcError(res.text.json) THEN [ok |-> FALSE, json |-> JNull]
    ELSE [ok |-> TRUE, json |-> res.text.json]

\* what the router answers when raceRpc throws: 500 with a JSON-RPC error body
\* whose id is the id of the first request of the batch
RouterAllFailed ==
    Response(ErrorResponse(500, 1, "RPC_ROUTING_FAILED").status,
             ErrorResponse(500, 1, "RPC_ROUTING_FAILED").body)

\* what the router can answer to the batch: the body of the winning endpoint,
\* or the 500 above
EdgeBodies ==
    {BatchOf(BatchIds, ResultsOf(HexA)), BatchOf(BatchIds \ {3}, ResultsOf(HexA))}

EdgeRouterResponses == {Response(200, TextOf(b)) : b \in EdgeBodies} \cup {RouterAllFailed}

NoEdgeCache == [present |-> FALSE, value |-> NullSnapshot, updatedAtMs |-> 0]

EdgeIdleReq == [pc |-> "new", force |-> FALSE, now |-> 0, prev |-> NullSnapshot]

\* no response yet
NoEdgeResp ==
    [req |-> 0, status |-> 0, value |-> NullSnapshot, live |-> FALSE, res |-> NoResponse,
     threw |-> FALSE, prev |-> NullSnapshot]

\* new Response(JSON.stringify(value), {status}) of request r without a batch call
EdgeResponse(r, status, value) == [NoEdgeResp EXCEPT !.req = r, !.status = status, !.value = value]

\* the snapshot the catch branch of the batch call caches and returns
edgeBatchFailed(next) == next

\* the part of edgeDefiAggregator after the batch call: next from prev, the time
\* of the request and what rpcViaEdgeRouter returned or threw
edgeDefiNext(prev, now, rpc) ==
    LET next == [prev EXCEPT !.updatedAt = now]
    IN IF ~rpc.ok \/ rpc.json.kind # "array"
       THEN edgeBatchFailed(next)
       ELSE [next EXCEPT
               !.blockNumber = blockNumberOf(rpc.json.items, prev.blockNumber),
               !.protocols =
                  [p \in Sources |->
                     IF p = "uniswap_v3"
                     THEN uniswapMetric(rpc.json.items, prev, prev.protocols[p])
                     ELSE IF p = "aave"
                     THEN aaveMetric(rpc.json.items, prev, prev.protocols[p])
                     ELSE compoundMetric(rpc.json.items, prev, prev.protocols[p])]]

\* lib/edge/defiAggregator.ts, getDefiStorm past its cache check: one race per
\* sub-call, the call of id k answered as the batch answers id k (every call fails
\* when the batch call fails); a failed ethBlockNumber degrades the three sources
\* and returns
getDefiStorm(prev, now, rpc) ==
    LET next == [prev EXCEPT !.updatedAt = now]
        results == IF rpc.ok /\ rpc.json.kind = "array" THEN rpc.json.items ELSE <<>>
    IN IF ~BatchBigInt(results, 1).ok
       THEN [next EXCEPT
               !.protocols = [p \in Sources |->
                                MarkDegraded(prev.protocols[p], "blockNumber failed")]]
       ELSE [next EXCEPT
               !.blockNumber = BigToNumber(BatchBigInt(results, 1).value),
               !.protocols =
                  [p \in Sources |->
                     IF p = "uniswap_v3"
                     THEN uniswapMetric(results, prev, prev.protocols[p])
                     ELSE IF p = "aave"
                     THEN aaveMetric(results, prev, prev.protocols[p])
                     ELSE compoundMetric(results, prev, prev.protocols[p])]]

\* if (!force && cached && now - cached.updatedAtMs < 30_000) return cached.value
getDefiStormCached(force, cache, now) ==
    ~force /\ cache.present /\ now - cache.updatedAtMs < 30000

\* edgeDefiAggregator up to await rpcViaEdgeRouter(...), or to its return
edgeDefiAggregator(r, method, force) ==
    /\ edgeReq[r].pc = "new"
    /\ IF method = "OPTIONS"
       THEN /\ edgeReq' = [edgeReq EXCEPT ![r].pc = "done"]
            /\ edgeResp' = EdgeResponse(r, 204, NullSnapshot)
       ELSE IF method # "GET"
       THEN /\ edgeReq' = [edgeReq EXCEPT ![r].pc = "done"]
            /\ edgeResp' = EdgeResponse(r, 405, NullSnapshot)
       ELSE IF ~force /\ edgeCache.present /\ edgeNow - edgeCache.updatedAtMs < EDGE_TTL_MS
       THEN /\ edgeReq' = [edgeReq EXCEPT ![r].pc = "done"]
            /\ edgeResp' = EdgeResponse(r, 200, edgeCache.value)
       ELSE /\ edgeReq' = [edgeReq EXCEPT
                             ![r].pc = "awaitRouter", ![r].force = force,
                             ![r].now = edgeNow,
                             ![r].prev = IF edgeCache.present THEN edgeCache.value
                                         ELSE buildEmpty(edgeNow)]
            /\ UNCHANGED edgeResp
    /\ UNCHANGED <<edgeNow, edgeCache>>
    /\ EdgeFrame

\* the rest of edgeDefiAggregator: setCache and the response
edgeDefiAggregatorReturn(r, res, rpc) ==
    LET next == edgeDefiNext(edgeReq[r].prev, edgeReq[r].now, rpc)
    IN /\ edgeCache' = [present |-> TRUE, value |-> next, updatedAtMs |-> edgeReq[r].now]
       /\ edgeReq' = [edgeReq EXCEPT ![r] = [EdgeIdleReq EXCEPT !.pc = "done"]]
       /\ edgeResp' = [req |-> r, status |-> 200, value |-> next, live |-> TRUE,
                       res |-> res, threw |-> ~rpc.ok, prev |-> edgeReq[r].prev]
       /\ UNCHANGED edgeNow
       /\ EdgeFrame

\* the router answers the batch of request r
edgeRouterResponds(r, res) ==
    /\ edgeReq[r].pc = "awaitRouter"
    /\ edgeDefiAggregatorReturn(r, res, rpcViaEdgeRouter(res))

\* the fetch of the router rejects
edgeRouterUnreachable(r) ==
    /\ edgeReq[r].pc = "awaitRouter"
    /\ edgeDefiAggregatorReturn(r, NoResponse, [ok |-> FALSE, json |-> JNull])

EdgeTick ==
    /\ edgeNow < MaxEdgeTicks * EdgeTickMs
    /\ edgeNow' = edgeNow + EdgeTickMs
    /\ UNCHANGED <<edgeCache, edgeReq, edgeResp>>
    /\ EdgeFrame

EdgeIdle ==
    /\ edgeNow = 0
    /\ edgeCache = NoEdgeCache
    /\ edgeReq = [r \in 1..MaxEdgeRequests |-> EdgeIdleReq]
    /\ edgeResp = NoEdgeResp

-----------------------------------------------------------------------------
(* handleEdgeDefiAggregator: GET /edge/defi over the memory and durable     *)
(* tiers                                                                   *)

MaxDefiRequests == 2

MaxDefiTicks == 2

DEFI_TTL_MS == 30000

DefiTickMs == DEFI_TTL_MS

\* a cache entry {expiresAt, payload}; present FALSE: the key is absent
NoEntry == [present |-> FALSE, expiresAt |-> 0, payload |-> NullSnapshot]

Entry(expiresAt, snap) == [present |-> TRUE, expiresAt |-> expiresAt, payload |-> snap]

\* memGet(key) at time now: the payload, or null for an absent or expired entry
memGet_ExpiredAtDeadline(m, now) ==
    IF ~m.present THEN NullSnapshot
    ELSE IF now >= m.expiresAt THEN NullSnapshot
    ELSE m.payload

memGet(m, now) ==
    IF ~m.present THEN NullSnapshot
    ELSE IF now > m.expiresAt THEN NullSnapshot
    ELSE m.payload

\* the map after memGet(key): an expired entry is deleted by the read
memAfterGet_EvictedOnRead(m, now) == NoEntry

memAfterGet(m, now) == IF m.present /\ now > m.expiresAt THEN NoEntry ELSE m

\* memPut(key, payload, ttlMs)
memPut_ExpiresAtOnce(snap, ttlMs, now) == Entry(now, snap)

memPut(snap, ttlMs, now) == Entry(now + ttlMs, snap)

\* JSON.stringify(payload): the document of a snapshot, a property that was never
\* assigned (blockNumber before the first decoded block) left out
JSONstringify_BlockNumberDropped(snap) ==
    [k \in {"updatedAt", "protocols", "cache"} |->
        CASE k = "updatedAt" -> snap.updatedAt
          [] k = "protocols" -> snap.protocols
          [] k = "cache" -> snap.cache]

JSONstringify(snap) ==
    LET keys == {"updatedAt", "protocols", "cache"}
                \cup (IF snap.blockNumber = -1 THEN {} ELSE {"blockNumber"})
    IN [k \in keys |->
          CASE k = "updatedAt" -> snap.updatedAt
            [] k = "protocols" -> snap.protocols
            [] k = "cache" -> snap.cache
            [] k = "blockNumber" -> snap.blockNumber]

\* JSON.parse(text) of such a document: a property the text lacks is undefined
JSONparse(doc) ==
    [isNull |-> FALSE, updatedAt |-> doc["updatedAt"],
     blockNumber |-> IF "blockNumber" \in DOMAIN doc THEN doc["blockNumber"] ELSE -1,
     protocols |-> doc["protocols"], cache |-> doc["cache"]]

\* kvPutJson(kv, key, envelope, ttl): the body handed to kv.put,
\* JSON.stringify({expiresAt, payload})
kvPutJson_LongerLife(envelope) ==
    [present |-> TRUE, expiresAt |-> envelope.expiresAt + DEFI_TTL_MS,
     payload |-> JSONstringify(envelope.payload)]

kvPutJson(envelope) ==
    [present |-> TRUE, expiresAt |-> envelope.expiresAt,
     payload |-> JSONstringify(envelope.payload)]

\* kvGetJson(kv, key): the stored body parsed, or null for an absent key
kvGetJson_ExpiresAtLost(stored) ==
    IF ~stored.present THEN NoEntry
    ELSE Entry(MaxDefiTicks * DefiTickMs, JSONparse(stored.payload))

kvGetJson(stored) ==
    IF ~stored.present THEN NoEntry
    ELSE Entry(stored.expiresAt, JSONparse(stored.payload))

\* kvGetValidPayload(kv, key) once kvGetJson has resolved: ok FALSE when both
\* kv.get calls threw
kvGetValidPayload_FailedReadServed(envelope, ok, now) ==
    IF ~envelope.present THEN NullSnapshot
    ELSE IF now > envelope.expiresAt THEN NullSnapshot
    ELSE envelope.payload

kvGetValidPayload(envelope, ok, now) ==
    IF ~ok \/ ~envelope.present THEN NullSnapshot
    ELSE IF now > envelope.expiresAt THEN NullSnapshot
    ELSE envelope.payload

\* { ...payload, cache: { hit, layer, ttlMs: DEFI_TTL_MS } }
WithCache_LayerOfPayload(snap, hit, layer) == [snap EXCEPT !.cache = [hit |-> hit, layer |-> snap.cache.layer]]

WithCache(snap, hit, layer) == [snap EXCEPT !.cache = [hit |-> hit, layer |-> layer]]

\* what raceRpc returns or throws to the batch: every endpoint down, or the
\* second endpoint answering the whole batch
DefiOutcomes ==
    UNION {RaceOutcomes(AggResponses(BatchOf(BatchIds, ResultsOf(HexA)), up)) :
             up \in {{}, {2}}}

\* what a refresh can meet: every endpoint down, or the second endpoint answering
\* the whole batch, the batch without the entry of aave, the batch with a null
\* exchange rate, or a single response object in place of the batch
RefreshBodies ==
    {BatchOf(BatchIds, ResultsOf(HexA)),
     BatchOf(BatchIds \ {3}, ResultsOf(HexA)),
     BatchOf(BatchIds, [ResultsOf(HexA) EXCEPT ![5] = RpcResult(5, ResNull)]),
     RpcResult(1, HexBlock)}

RefreshOutcomes ==
    UNION {RaceOutcomes(AggResponses(b, {2})) : b \in RefreshBodies}
    \cup RaceOutcomes(AggResponses(JNull, {}))

\* a request that has reached an await: where it stands and its local variables;
\* lone: no other read has started since it started and none was in flight then
InFlight(pc, force, startedAt, lone) ==
    [pc |-> pc, force |-> force, startedAt |-> startedAt, lone |-> lone,
     prev |-> NullSnapshot, liveAt |-> 0, final |-> NullSnapshot, expiresAt |-> 0]

\* new Response(JSON.stringify(value), {status}); live: computeDefi ran for it;
\* expiresAt: the expiry of the memory entry it read or wrote
DefiResponse(status, value, force, startedAt, lone, live, expiresAt) ==
    [status |-> status, value |-> value, force |-> force, startedAt |-> startedAt,
     lone |-> lone, live |-> live, expiresAt |-> expiresAt]

\* the last two responses, oldest first
Logged(log, resp) == IF Len(log) < 2 THEN Append(log, resp) ELSE <<log[2], resp>>

\* the requests in flight once another read has started
Overlapped(reqs) ==
    LET T == {[q EXCEPT !.lone = FALSE] : q \in BagToSet(reqs)}
    IN [t \in T |-> CopiesIn(t, reqs) + CopiesIn([t EXCEPT !.lone = TRUE], reqs)]

One(q) == SetToBag({q})

\* const { next, rpc } = await computeDefi({ request, env, prev }) up to the await
\* of raceRpc inside it
DefiStartLive(q, prev, now) == [q EXCEPT !.pc = "computing", !.prev = prev, !.liveAt = now]

\* if (!force): only a read that is not forced looks for a hit in the tiers
tierLookup_EvenWhenForced(force) == TRUE

tierLookup(force) == ~force

\* handleEdgeDefiAggregator up to its first await, or to its return
handleEdgeDefiAggregator_MemoryNotConsulted(method, force) ==
    LET lone == defiReqs = EmptyBag
        q == InFlight("new", force, defiNow, lone)
        memHit == memGet(mem, defiNow)
    IN /\ method = "GET"
       /\ mem' = memAfterGet(mem, defiNow)
       /\ UNCHANGED defiLog
       /\ defiReqs' =
             Overlapped(defiReqs)
             (+) One(IF tierLookup(force) /\ hasKv THEN [q EXCEPT !.pc = "kvHit"]
                     ELSE IF ~memHit.isNull \/ ~hasKv
                     THEN DefiStartLive(q, memHit, defiNow)
                     ELSE [q EXCEPT !.pc = "kvPrev"])

handleEdgeDefiAggregator(method, force) ==
    LET lone == defiReqs = EmptyBag
        q == InFlight("new", force, defiNow, lone)
        memHit == memGet(mem, defiNow)
    IN IF method = "OPTIONS"
       THEN /\ defiLog' = Logged(defiLog, DefiResponse(204, NullSnapshot, force, defiNow,
                                                        lone, FALSE, 0))
            /\ UNCHANGED <<mem, defiReqs>>
       ELSE IF method # "GET"
       THEN /\ defiLog' = Logged(defiLog, DefiResponse(405, NullSnapshot, force, defiNow,
                                                        lone, FALSE, 0))
            /\ UNCHANGED <<mem, defiReqs>>
       ELSE /\ mem' = memAfterGet(mem, defiNow)
            /\ IF tierLookup(force) /\ ~memHit.isNull
               THEN /\ defiLog' =
                        Logged(defiLog,
                               DefiResponse(200, WithCache(memHit, TRUE, "memory"), force,
                                            defiNow, lone, FALSE, mem.expiresAt))
                    /\ defiReqs' = Overlapped(defiReqs)
               ELSE /\ UNCHANGED defiLog
                    /\ defiReqs' =
                          Overlapped(defiReqs)
                          (+) One(IF tierLookup(force) /\ hasKv THEN [q EXCEPT !.pc = "kvHit"]
                                  ELSE IF ~memHit.isNull \/ ~hasKv
                                  THEN DefiStartLive(q, memHit, defiNow)
                                  ELSE [q EXCEPT !.pc = "kvPrev"])

\* GET, POST or OPTIONS /edge/defi arrives
DefiRequest(method, force) ==
    /\ defiCount < MaxDefiRequests
    /\ defiCount' = defiCount + 1
    /\ handleEdgeDefiAggregator(method, force)
    /\ UNCHANGED <<defiNow, hasKv, kvStore>>
    /\ DefiFrame

\* a request that arrives when no other request is in flight
DefiRequestAlone(method, force) ==
    /\ defiReqs = EmptyBag
    /\ DefiRequest(method, force)

\* const kvHit = await kvGetValidPayload(kv, key) resolves: a hit is promoted to
\* memory and returned; a miss goes on to prev = memGet(key) || await kvGet...
defiKvHitResolves_NotPromoted(q, ok) ==
    LET kvHit == kvGetValidPayload(kvGetJson(kvStore), ok, defiNow)
        memHit == memGet(mem, defiNow)
    IN /\ q \in BagToSet(defiReqs)
       /\ q.pc = "kvHit"
       /\ IF ~kvHit.isNull
          THEN /\ mem' = memAfterGet(mem, defiNow)
               /\ defiReqs' = defiReqs (-) One(q)
               /\ defiLog' =
                     Logged(defiLog,
                            DefiResponse(200, WithCache(kvHit, TRUE, "kv"), q.force,
                                         q.startedAt, q.lone, FALSE, defiNow + DEFI_TTL_MS))
          ELSE /\ mem' = memAfterGet(mem, defiNow)
               /\ defiReqs' =
                     (defiReqs (-) One(q))
                     (+) One(IF ~memHit.isNull THEN DefiStartLive(q, memHit, defiNow)
                             ELSE [q EXCEPT !.pc = "kvPrev"])
               /\ UNCHANGED defiLog
       /\ UNCHANGED <<defiNow, hasKv, kvStore, defiCount>>
       /\ DefiFrame

defiKvHitResolves(q, ok) ==
    LET kvHit == kvGetValidPayload(kvGetJson(kvStore), ok, defiNow)
        memHit == memGet(mem, defiNow)
    IN /\ q \in BagToSet(defiReqs)
       /\ q.pc = "kvHit"
       /\ IF ~kvHit.isNull
          THEN /\ mem' = memPut(kvHit, DEFI_TTL_MS, defiNow)
               /\ defiReqs' = defiReqs (-) One(q)
               /\ defiLog' =
                     Logged(defiLog,
                            DefiResponse(200, WithCache(kvHit, TRUE, "kv"), q.force,
                                         q.startedAt, q.lone, FALSE, defiNow + DEFI_TTL_MS))
          ELSE /\ mem' = memAfterGet(mem, defiNow)
               /\ defiReqs' =
                     (defiReqs (-) One(q))
                     (+) One(IF ~memHit.isNull THEN DefiStartLive(q, memHit, defiNow)
                             ELSE [q EXCEPT !.pc = "kvPrev"])
               /\ UNCHANGED defiLog
       /\ UNCHANGED <<defiNow, hasKv, kvStore, defiCount>>
       /\ DefiFrame

\* prev = ... await kvGetValidPayload(kv, key) resolves and computeDefi starts
defiKvPrevResolves(q, ok) ==
    /\ q \in BagToSet(defiReqs)
    /\ q.pc = "kvPrev"
    /\ defiReqs' =
          (defiReqs (-) One(q))
          (+) One(DefiStartLive(q, kvGetValidPayload(kvGetJson(kvStore), ok, defiNow), defiNow))
    /\ UNCHANGED <<defiNow, hasKv, mem, kvStore, defiCount, defiLog>>
    /\ DefiFrame

\* computeDefi returns: final is put in memory, then written to the store (an
\* await) when there is one
defiComputeReturns(q, out) ==
    LET final == WithCache(computeDefi(q.prev, q.liveAt, out).next, FALSE, "live")
    IN /\ q \in BagToSet(defiReqs)
       /\ q.pc = "computing"
       /\ mem' = memPut(final, DEFI_TTL_MS, defiNow)
       /\ IF hasKv
          THEN /\ defiReqs' =
                     (defiReqs (-) One(q))
                     (+) One([q EXCEPT !.pc = "kvPut", !.final = final, !.prev = NullSnapshot,
                                       !.expiresAt = defiNow + DEFI_TTL_MS])
               /\ UNCHANGED defiLog
          ELSE /\ defiReqs' = defiReqs (-) One(q)
               /\ defiLog' =
                     Logged(defiLog,
                            DefiResponse(200, final, q.force, q.startedAt, q.lone, TRUE,
                                         defiNow + DEFI_TTL_MS))
       /\ UNCHANGED <<defiNow, hasKv, kvStore, defiCount>>
       /\ DefiFrame

\* await kvPutPayload(kv, key, final, DEFI_TTL_MS) resolves: the envelope was made
\* before the await; ok FALSE when both kv.put calls threw
defiKvPutResolves(q, ok) ==
    /\ q \in BagToSet(defiReqs)
    /\ q.pc = "kvPut"
    /\ kvStore' = IF ok THEN kvPutJson(Entry(q.expiresAt, q.final)) ELSE kvStore
    /\ defiReqs' = defiReqs (-) One(q)
    /\ defiLog' =
          Logged(defiLog,
                 DefiResponse(200, q.final, q.force, q.startedAt, q.lone, TRUE, q.expiresAt))
    /\ UNCHANGED <<defiNow, hasKv, mem, defiCount>>
    /\ DefiFrame

DefiTick ==
    /\ defiNow < MaxDefiTicks * DefiTickMs
    /\ defiNow' = defiNow + DefiTickMs
    /\ UNCHANGED <<hasKv, mem, kvStore, defiCount, defiReqs, defiLog>>
    /\ DefiFrame

\* a new isolate takes over between two requests: its
\* globalThis.__EDGEWAVE_MEM_CACHE starts as an empty Map, the store keeps its
\* entries
IsolateRestart ==
    /\ defiReqs = EmptyBag
    /\ mem.present
    /\ mem' = NoEntry
    /\ UNCHANGED <<defiNow, hasKv, kvStore, defiCount, defiReqs, defiLog>>
    /\ DefiFrame

DefiIdle ==
    /\ defiNow = 0
    /\ hasKv = FALSE
    /\ mem = NoEntry
    /\ kvStore = NoEntry
    /\ defiCount = 0
    /\ defiReqs = EmptyBag
    /\ defiLog = <<>>

-----------------------------------------------------------------------------
(* getMem, memGet, memPut on the Map of an isolate that serves several keys *)

\* defiCacheKey(...) for two configurations of the three contract addresses
CacheKeys == {"defi_v1_A", "defi_v1_B"}

\* the snapshots handleEdgeDefiAggregator puts in memory
MemPayloads ==
    {WithCache(computeDefi(NullSnapshot, 0, out).next, FALSE, "live") : out \in DefiOutcomes}

\* memGet(key)
memGetCall(key) ==
    /\ memRet' = memGet(memCache[key], memNow)
    /\ memCache' = [memCache EXCEPT ![key] = memAfterGet(@, memNow)]
    /\ UNCHANGED memNow
    /\ MapFrame

\* memPut(key, payload, DEFI_TTL_MS)
memPutCall(key, snap) ==
    /\ memCache' = [memCache EXCEPT ![key] = memPut(snap, DEFI_TTL_MS, memNow)]
    /\ UNCHANGED <<memNow, memRet>>
    /\ MapFrame

\* time passes in the isolate: nothing runs
MemTick ==
    /\ memNow < MaxDefiTicks * DefiTickMs
    /\ memNow' = memNow + DefiTickMs
    /\ UNCHANGED <<memCache, memRet>>
    /\ MapFrame

MapIdle ==
    /\ memCache = [k \in CacheKeys |-> NoEntry]
    /\ memNow = 0
    /\ memRet = NullSnapshot

-----------------------------------------------------------------------------
(* Specifications                                                          *)

RaceInit == RaceIdle /\ ClsIdle /\ AggIdle /\ EdgeIdle /\ DefiIdle /\ MapIdle

RaceNext ==
    \/ \E m \in RequestMethods, b \in RequestBodies, a \in BOOLEAN :
          handleEdgeRpcRouter(m, b, a)
    \/ \E n \in 1..MaxEndpoints : raceRpcDirect(n, TextOf(RpcRequestJson(1)), FALSE)
    \/ \E i \in 1..(MaxEndpoints + 1), res \in RaceResponses : FetchRespond(i, res)
    \/ \E i \in 1..(MaxEndpoints + 1) : FetchFail(i)
    \/ \E i \in 1..(MaxEndpoints + 1) : FetchAbort(i)
    \/ \E i \in 1..(MaxEndpoints + 1) : TimerFire(i)
    \/ ParentAbort
    \/ RaceTick
    \/ raceRpcPhase1
    \/ raceRpcPhase2Return
    \/ raceRpcPhase2Throw
    \/ handleEdgeRpcRouterResume

SpecRace == RaceInit /\ [][RaceNext]_vars

\* one call of raceRpc whose endpoints answer, fail, or never respond
LiveResponses ==
    {Response(200, TextOf(RpcResult(1, HexBlock))), Response(500, TextOf(RpcResult(1, HexBlock)))}

RaceLiveNext ==
    \/ \E n \in 1..MaxEndpoints, a \in BOOLEAN :
          raceRpcDirect(n, TextOf(RpcRequestJson(1)), a)
    \/ \E i \in 1..MaxEndpoints, res \in LiveResponses : FetchRespond(i, res)
    \/ \E i \in 1..MaxEndpoints : FetchFail(i)
    \/ \E i \in 1..MaxEndpoints : FetchAbort(i)
    \/ \E i \in 1..MaxEndpoints : TimerFire(i)
    \/ ParentAbort
    \/ RaceTick
    \/ raceRpcPhase1
    \/ raceRpcPhase2Return
    \/ raceRpcPhase2Throw

\* the event loop runs what is ready: time passes, a timer that is due fires, a
\* fetch whose signal is aborted rejects, a promise that is settled resumes its
\* await; nothing makes an endpoint respond
RaceLiveFairness ==
    /\ WF_vars(RaceTick)
    /\ \A i \in 1..MaxEndpoints : WF_vars(TimerFire(i))
    /\ \A i \in 1..MaxEndpoints : WF_vars(FetchAbort(i))
    /\ WF_vars(raceRpcPhase1)
    /\ WF_vars(raceRpcPhase2Return)
    /\ WF_vars(raceRpcPhase2Throw)

SpecRaceLive == RaceInit /\ [][RaceLiveNext]_vars /\ RaceLiveFairness

ClassifyInit == ClsInit /\ RaceIdle /\ AggIdle /\ EdgeIdle /\ DefiIdle /\ MapIdle

ClassifyNext == TryRpcCall

SpecClassify == ClassifyInit /\ [][ClassifyNext]_vars

AggInit ==
    /\ aggPc = "ready"
    /\ aggPrev = NullSnapshot
    /\ aggResps = <<>>
    /\ aggOut = NoRaceOut
    /\ aggNext \in PrevSnapshots
    /\ aggRpc = FALSE
    /\ ClsIdle
    /\ RaceIdle
    /\ EdgeIdle
    /\ DefiIdle
    /\ MapIdle

AggNext == \E b \in AggBodies, up \in UpSets : computeDefiCall(b, up)

SpecAgg == AggInit /\ [][AggNext]_vars

EdgeAggInit == EdgeIdle /\ ClsIdle /\ RaceIdle /\ AggIdle /\ DefiIdle /\ MapIdle

EdgeAggNext ==
    \/ \E r \in 1..MaxEdgeRequests, method \in {"GET", "POST", "OPTIONS"}, force \in BOOLEAN :
          edgeDefiAggregator(r, method, force)
    \/ \E r \in 1..MaxEdgeRequests, res \in EdgeRouterResponses : edgeRouterResponds(r, res)
    \/ \E r \in 1..MaxEdgeRequests : edgeRouterUnreachable(r)
    \/ EdgeTick

SpecEdgeAgg == EdgeAggInit /\ [][EdgeAggNext]_vars

\* the isolate starts with an empty memory; the store may be bound or not
DefiInit ==
    /\ defiNow = 0
    /\ hasKv \in BOOLEAN
    /\ mem = NoEntry
    /\ kvStore = NoEntry
    /\ defiCount = 0
    /\ defiReqs = EmptyBag
    /\ defiLog = <<>>
    /\ ClsIdle
    /\ RaceIdle
    /\ AggIdle
    /\ EdgeIdle
    /\ MapIdle

DefiNext ==
    \/ \E method \in {"GET", "POST", "OPTIONS"}, force \in BOOLEAN : DefiRequest(method, force)
    \/ \E q \in BagToSet(defiReqs), ok \in BOOLEAN : defiKvHitResolves(q, ok)
    \/ \E q \in BagToSet(defiReqs), ok \in BOOLEAN : defiKvPrevResolves(q, ok)
    \/ \E q \in BagToSet(defiReqs), out \in DefiOutcomes : defiComputeReturns(q, out)
    \/ \E q \in BagToSet(defiReqs), ok \in BOOLEAN : defiKvPutResolves(q, ok)
    \/ DefiTick

SpecDefi == DefiInit /\ [][DefiNext]_vars

\* a client that sends its next request once the last one was answered
DefiSeqNext ==
    \/ \E method \in {"GET", "POST", "OPTIONS"}, force \in BOOLEAN :
          DefiRequestAlone(method, force)
    \/ \E q \in BagToSet(defiReqs), ok \in BOOLEAN : defiKvHitResolves(q, ok)
    \/ \E q \in BagToSet(defiReqs), ok \in BOOLEAN : defiKvPrevResolves(q, ok)
    \/ \E q \in BagToSet(defiReqs), out \in DefiOutcomes : defiComputeReturns(q, out)
    \/ \E q \in BagToSet(defiReqs), ok \in BOOLEAN : defiKvPutResolves(q, ok)
    \/ DefiTick

SpecDefiSeq == DefiInit /\ [][DefiSeqNext]_vars

\* refreshes of every kind, one after the other, within one TTL window, by
\* isolates that may be replaced
DefiRefreshNext ==
    \/ \E method \in {"GET", "POST", "OPTIONS"}, force \in BOOLEAN :
          DefiRequestAlone(method, force)
    \/ \E q \in BagToSet(defiReqs), ok \in BOOLEAN : defiKvHitResolves(q, ok)
    \/ \E q \in BagToSet(defiReqs), ok \in BOOLEAN : defiKvPrevResolves(q, ok)
    \/ \E q \in BagToSet(defiReqs), out \in RefreshOutcomes : defiComputeReturns(q, out)
    \/ \E q \in BagToSet(defiReqs), ok \in BOOLEAN : defiKvPutResolves(q, ok)
    \/ IsolateRestart

SpecDefiRefresh == DefiInit /\ [][DefiRefreshNext]_vars

\* an isolate bound to a store, empty at first
DefiTiersInit ==
    /\ defiNow = 0
    /\ hasKv = TRUE
    /\ mem = NoEntry
    /\ kvStore = NoEntry
    /\ defiCount = 0
    /\ defiReqs = EmptyBag
    /\ defiLog = <<>>
    /\ ClsIdle
    /\ RaceIdle
    /\ AggIdle
    /\ EdgeIdle
    /\ MapIdle

\* GET requests that are not forced, one after the other, while time passes and
\* isolates are replaced
DefiTiersNext ==
    \/ DefiRequestAlone("GET", FALSE)
    \/ \E q \in BagToSet(defiReqs), ok \in BOOLEAN : defiKvHitResolves(q, ok)
    \/ \E q \in BagToSet(defiReqs), ok \in BOOLEAN : defiKvPrevResolves(q, ok)
    \/ \E q \in BagToSet(defiReqs), out \in DefiOutcomes : defiComputeReturns(q, out)
    \/ \E q \in BagToSet(defiReqs), ok \in BOOLEAN : defiKvPutResolves(q, ok)
    \/ DefiTick
    \/ IsolateRestart

SpecDefiTiers == DefiTiersInit /\ [][DefiTiersNext]_vars

\* the envelopes another isolate has put in the store at time 0
StoredByAnotherIsolate ==
    {kvPutJson(Entry(DEFI_TTL_MS, WithCache(computeDefi(NullSnapshot, 0, out).next,
                                             FALSE, "live"))) : out \in DefiOutcomes}

\* a new isolate bound to a store that another isolate has written to
DefiWarmInit ==
    /\ defiNow = 0
    /\ hasKv = TRUE
    /\ mem = NoEntry
    /\ kvStore \in StoredByAnotherIsolate
    /\ defiCount = 0
    /\ defiReqs = EmptyBag
    /\ defiLog = <<>>
    /\ ClsIdle
    /\ RaceIdle
    /\ AggIdle
    /\ EdgeIdle
    /\ MapIdle

SpecDefiWarm == DefiWarmInit /\ [][DefiTiersNext]_vars

\* the Map of one isolate, read and written at two keys while time passes
MemMapInit == MapIdle /\ ClsIdle /\ RaceIdle /\ AggIdle /\ EdgeIdle /\ DefiIdle

MemMapNext ==
    \/ \E key \in CacheKeys : memGetCall(key)
    \/ \E key \in CacheKeys, snap \in MemPayloads : memPutCall(key, snap)
    \/ MemTick

SpecMemMap == MemMapInit /\ [][MemMapNext]_vars

-----------------------------------------------------------------------------
(* Properties of the race router                                           *)

\* the failure rule of the specification, stated on the response itself
EnvelopeHasError(j) ==
    \/ j.kind = "object" /\ "error" \in j.keys
    \/ /\ j.kind = "array"
       /\ \E k \in DOMAIN j.items :
             j.items[k].kind = "object" /\ "error" \in j.items[k].keys

SpecFailure(res) ==
    \/ res.status < 200
    \/ res.status > 299
    \/ ~res.text.parses
    \/ EnvelopeHasError(res.text.json)

\* attempts whose endpoint returned a response that is a valid JSON-RPC result
ValidSet == {i \in Attempts : att[i].gotRes /\ ~SpecFailure(att[i].res)}

RaceDecided == racePc \in {"returned", "failed"}

\* C1: with a non-empty endpoint set in which at least one endpoint has returned a
\* valid JSON-RPC result, raceRpc never fails with the aggregate error: once decided
\* it has returned a success, and while it waits in phase 2 the success is already
\* chosen, in whatever order the attempts settled.
C1_SuccessIfAnyValid ==
    (racePc # "idle" /\ ValidSet # {}) =>
        /\ racePc # "failed"
        /\ RaceDecided => raceOut.ok
        /\ racePc = "phase2" => anyWinner \in ValidSet

C1_Witness ==
    /\ racePc = "returned"
    /\ Len(rpcUrls) = 3
    /\ Cardinality(ValidSet) = 1
    /\ Cardinality(RejectedSet) = 2
    /\ firstSettled \in RejectedSet
    /\ raceOut.url = 3

\* C2: when the first attempt to settle is a failure (HTTP error or JSON-RPC error
\* field) and another endpoint returns a valid result, raceRpc does not fail: it
\* returns the valid result of that slower endpoint, also when that attempt was
\* still in flight when the failure was observed.
C2_DowngradeReturnsSlowerSuccess ==
    (firstSettled # 0 /\ att[firstSettled].st = "rejected") =>
        /\ (RaceDecided /\ FulfilledSet # {}) =>
              /\ racePc = "returned"
              /\ raceOut.url \in FulfilledSet \ {firstSettled}
              /\ raceOut.text = att[raceOut.url].res.text
        /\ (racePc = "phase2" /\ FulfilledSet # {}) => anyWinner \in FulfilledSet
        /\ (racePc = "phase2" /\ anyWinner # 0) => anyWinner \in FulfilledSet

C2_Witness ==
    /\ racePc = "returned"
    /\ att[firstSettled].st = "rejected"
    /\ att[firstSettled].out.message \in {"HTTP", "JSON-RPC error"}
    /\ raceOut.url \in pendingAtDowngrade
    /\ raceOut.elapsedMs > 0

\* C3: what raceRpc returns is the url, text and elapsedMs of one attempt that was
\* classified successful, url being the endpoint that sent text; a response that is
\* a failure is never returned; /edge/rpc answers 200 with that body and names the
\* same endpoint in x-edgewave-fastest.
C3_ReturnsOneSuccessfulAttempt ==
    /\ racePc = "returned" =>
          /\ raceOut.ok
          /\ raceOut.url \in FulfilledSet
          /\ att[raceOut.url].gotRes
          /\ raceOut.text = att[raceOut.url].res.text
          /\ raceOut.elapsedMs = att[raceOut.url].out.elapsedMs
          /\ ~SpecFailure(att[raceOut.url].res)
    /\ (rpcPc = "done" /\ rpcResp.status = 200) =>
          /\ racePc = "returned"
          /\ rpcResp.fastest = raceOut.url
          /\ rpcResp.body = att[rpcResp.fastest].res.text
          /\ rpcResp.elapsedMs = raceOut.elapsedMs

C3_Witness ==
    /\ rpcPc = "done"
    /\ rpcResp.status = 200
    /\ rpcResp.fastest = 2
    /\ att[1].st = "fulfilled"
    /\ att[1].res.text # rpcResp.body
    /\ att[3].gotRes /\ SpecFailure(att[3].res)

\* C4: tryRpc reports a failure exactly when the status is not 2xx, or the body does
\* not parse as JSON, or the envelope (any element of a batch) has an error field;
\* every other response, a null or zero result included, is a success.
C4_FailureRule ==
    clsOut # "none" => (clsOut = "failure" <=> SpecFailure(clsRes))

C4_Witness ==
    /\ clsOut = "success"
    /\ clsRes.text.json = RpcResult(1, ResNull)

\* C5: raceRpc fails only when every attempt has settled as a failure (or timed
\* out), never while an attempt is pending; the error it throws carries one reason
\* per endpoint; and when every attempt has failed the race does not return.
C5_AllFailedAggregate ==
    /\ racePc = "failed" =>
          /\ PendingSet = {}
          /\ RejectedSet = Attempts
          /\ ~raceOut.ok
          /\ Len(raceOut.errors) = Len(rpcUrls)
          /\ \A i \in Attempts :
                /\ raceOut.errors[i] = att[i].out
                /\ raceOut.errors[i].url = i
                /\ raceOut.errors[i].message # ""
    /\ (Attempts # {} /\ RejectedSet = Attempts) =>
          /\ racePc # "returned"
          /\ anyWinner = 0

C5_Witness ==
    /\ racePc = "failed"
    /\ Len(rpcUrls) = 3
    /\ raceOut.errors[1].message = "AbortError"
    /\ att[1].aborted /\ ~parentAborted
    /\ raceOut.errors[2].message = "HTTP"
    /\ raceOut.errors[3].message = "JSON-RPC error"

-----------------------------------------------------------------------------
(* Properties of the aggregator                                            *)

\* the sub-calls a source is decoded from
Deps(p) == IF p = "uniswap_v3" THEN {2} ELSE IF p = "aave" THEN {3} ELSE {4, 5}

\* a result that is a hex quantity "0x..."
IsHexQuantity(r) ==
    /\ r.type = "string"
    /\ r.has0x
    /\ r.digits # <<>>
    /\ \A k \in DOMAIN r.digits : r.digits[k] \in 0..15

GoodEntry(x) ==
    /\ x.kind = "object"
    /\ x.id \in BatchIds
    /\ "result" \in x.keys
    /\ "error" \notin x.keys
    /\ IsHexQuantity(x.result)

ErrorEntry(x) == x.kind = "object" /\ x.id \in BatchIds /\ "error" \in x.keys

DistinctIds(items) ==
    \A j, k \in DOMAIN items : items[j].id = items[k].id => j = k

GoodIds(json) == {json.items[k].id : k \in {j \in DOMAIN json.items : GoodEntry(json.items[j])}}

\* a batch response that is successful but for the ids it leaves out
SuccessfulButMissing(json) ==
    /\ json.kind = "array"
    /\ \A k \in DOMAIN json.items : GoodEntry(json.items[k])
    /\ DistinctIds(json.items)

\* a batch response with exactly one sub-call missing or carrying an error
OneSubCallFails(json) ==
    /\ json.kind = "array"
    /\ \A k \in DOMAIN json.items : GoodEntry(json.items[k]) \/ ErrorEntry(json.items[k])
    /\ DistinctIds(json.items)
    /\ Cardinality(BatchIds \ GoodIds(json)) = 1

\* C6: when the batch race fails with every endpoint failed (the router answers
\* the 500 of a failed race), the snapshot the aggregator produces has every source
\* degraded with the batch-failure note, and every source keeps the primary value
\* and the delta of the previous snapshot (zero when there was none)
C6_BatchFailureDegradesAll ==
    (edgeResp.live /\ edgeResp.res = RouterAllFailed)
    => \A p \in Sources :
          /\ edgeResp.value.protocols[p].health = "degraded"
          /\ edgeResp.value.protocols[p].notes = "batch failed"
          /\ edgeResp.value.protocols[p].tvlUsdApprox = edgeResp.prev.protocols[p].tvlUsdApprox
          /\ edgeResp.value.protocols[p].volumeUsdApprox24h =
                edgeResp.prev.protocols[p].volumeUsdApprox24h

\* C7: when an endpoint answers the batch with exactly one sub-call id missing or
\* carrying a JSON-RPC error, only the sources that depend on that id are degraded:
\* every other source is decoded and marked ok
C7_SubCallFailureIsPerSource ==
    \A i \in DOMAIN aggResps :
        (/\ aggPc = "done"
         /\ aggResps[i].status = 200
         /\ aggResps[i].text.parses
         /\ OneSubCallFails(aggResps[i].text.json))
        => \A p \in Sources :
              aggNext.protocols[p].health =
                 IF Deps(p) \subseteq GoodIds(aggResps[i].text.json) THEN "ok" ELSE "degraded"

\* C8: for every subset of the five sub-call ids missing from an otherwise
\* successful batch response, a source is ok exactly when all its sub-calls are
\* present and degraded otherwise, and a degraded source keeps the primary value of
\* the previous snapshot (zero when there was none)
C8_MissingIdsDegradeTheirSources ==
    (aggPc = "done" /\ aggOut.ok /\ aggOut.text.parses
       /\ SuccessfulButMissing(aggOut.text.json))
    => \A p \in Sources :
          IF Deps(p) \subseteq GoodIds(aggOut.text.json)
          THEN aggNext.protocols[p].health = "ok"
          ELSE /\ aggNext.protocols[p].health = "degraded"
               /\ aggNext.protocols[p].tvlUsdApprox =
                     IF aggPrev.isNull THEN 0 ELSE aggPrev.protocols[p].tvlUsdApprox

\* three of the five sub-calls answered, ids 4 and 5 missing, over a previous
\* snapshot in which compound was worth 9
C8_Witness ==
    /\ aggPc = "done"
    /\ aggOut.ok
    /\ SuccessfulButMissing(aggOut.text.json)
    /\ GoodIds(aggOut.text.json) = {1, 2, 3}
    /\ ~aggPrev.isNull
    /\ aggPrev.protocols["compound"].tvlUsdApprox = 9
    /\ aggNext.protocols["compound"] = Metric(9, 135, "degraded", "compound failed")
    /\ aggNext.protocols["uniswap_v3"] = Metric(5, 50, "ok", "pool.liquidity()")
    /\ aggNext.protocols["aave"] = Metric(3, 0, "ok", "aUSDC.totalSupply()")
    /\ aggNext.blockNumber = 4779

-----------------------------------------------------------------------------
(* Properties of the tiered cache                                          *)

Computing == {q \in BagToSet(defiReqs) : q.pc = "computing" /\ ~q.force}

\* C9: whatever the number of non-forced requests and however they interleave at
\* their awaits, no two live computations are started for the key within one TTL
\* window
C9_OneLiveComputationPerWindow ==
    \A q1, q2 \in Computing :
        \/ q1 = q2 /\ CopiesIn(q1, defiReqs) = 1
        \/ q1.liveAt - q2.liveAt >= DEFI_TTL_MS
        \/ q2.liveAt - q1.liveAt >= DEFI_TTL_MS

\* the last two responses answer two non-forced reads made one after the other
\* with no other read around them, the second within the TTL window of the entry
\* the first one read or wrote
SequentialReads ==
    /\ Len(defiLog) = 2
    /\ \A k \in 1..2 : defiLog[k].status = 200 /\ ~defiLog[k].force /\ defiLog[k].lone
    /\ defiLog[2].startedAt <= defiLog[1].expiresAt

\* the snapshot without its cache annotation
StripCache(snapshot) == [snapshot EXCEPT !.cache = NoCache]

C11_ForceBypassesTiers ==
    /\ \A q \in BagToSet(defiReqs) : q.force => q.pc # "kvHit"
    /\ \A k \in 1..Len(defiLog) :
          defiLog[k].force /\ defiLog[k].status = 200
          => /\ defiLog[k].live
             /\ defiLog[k].value.cache = [hit |-> FALSE, layer |-> "live"]
             /\ defiLog[k].value.updatedAt >= defiLog[k].startedAt

\* a live read fills the tiers and a forced read made at the same instant, alone,
\* is answered by a second live computation
C11_Witness ==
    /\ Len(defiLog) = 2
    /\ defiLog[1].status = 200 /\ defiLog[1].live /\ defiLog[1].lone
    /\ defiLog[2].status = 200 /\ defiLog[2].force /\ defiLog[2].lone
    /\ defiLog[2].startedAt < defiLog[1].expiresAt
    /\ defiLog[2].live
    /\ defiLog[2].value.cache = [hit |-> FALSE, layer |-> "live"]
    /\ hasKv /\ kvStore.present

\* C12: expiry is an exclusive boundary: a read answered from the memory tier
\* started strictly before the expiry of the entry it was served
C12_ExpiryExclusive ==
    \A k \in 1..Len(defiLog) :
        defiLog[k].status = 200 /\ defiLog[k].value.cache.layer = "memory"
        => defiLog[k].startedAt < defiLog[k].expiresAt

\* the store holds the envelope that the first of the last two responses wrote,
\* and the second was answered from the store, which it read before that
\* envelope expired
ReadBackFromStore ==
    /\ Len(defiLog) = 2
    /\ defiLog[1].status = 200 /\ defiLog[1].live
    /\ kvStore = kvPutJson(Entry(defiLog[1].expiresAt, defiLog[1].value))
    /\ defiLog[2].status = 200 /\ defiLog[2].value.cache.layer = "kv"

C14_DurableFailuresAbsorbed ==
    [][/\ \A q \in BagToSet(defiReqs) :
             /\ defiKvHitResolves(q, FALSE)
                => /\ defiLog' = defiLog /\ kvStore' = kvStore
                   /\ \E n \in BagToSet(defiReqs') :
                         /\ n.pc \in {"kvPrev", "computing"}
                         /\ n.startedAt = q.startedAt
                   /\ BagCardinality(defiReqs') = BagCardinality(defiReqs)
             /\ defiKvPrevResolves(q, FALSE)
                => /\ defiLog' = defiLog /\ kvStore' = kvStore
                   /\ DefiStartLive(q, NullSnapshot, defiNow) \in BagToSet(defiReqs')
             /\ defiKvPutResolves(q, FALSE)
                => /\ kvStore' = kvStore /\ mem' = mem
                   /\ defiLog' = Logged(defiLog, defiLog'[Len(defiLog')])
                   /\ defiLog'[Len(defiLog')].status = 200
                   /\ defiLog'[Len(defiLog')].value = q.final
       /\ ~hasKv => /\ kvStore' = kvStore
                    /\ \A n \in BagToSet(defiReqs') : n.pc = "computing"
       /\ \A k \in 1..Len(defiLog') :
             /\ defiLog'[k].status \in {200, 204, 405}
             /\ defiLog'[k].status = 200 => ~defiLog'[k].value.isNull
      ]_vars

\* the store is bound and every write to it failed: the live read was answered
\* all the same and the snapshot is in the memory tier only
C14_Witness ==
    /\ hasKv
    /\ ~kvStore.present
    /\ Len(defiLog) >= 1
    /\ defiLog[Len(defiLog)].status = 200
    /\ defiLog[Len(defiLog)].live
    /\ defiLog[Len(defiLog)].value.protocols["aave"].health = "ok"
    /\ mem.present /\ mem.payload = defiLog[Len(defiLog)].value

\* a snapshot in which every source of the source set has an entry with a primary
\* value, a delta, a health of ok or degraded and a note
FullyFormed(snapshot) ==
    /\ ~snapshot.isNull
    /\ DOMAIN snapshot.protocols = Sources
    /\ \A p \in Sources :
          /\ DOMAIN snapshot.protocols[p]
                = {"tvlUsdApprox", "volumeUsdApprox24h", "health", "notes"}
          /\ snapshot.protocols[p].tvlUsdApprox \in Nat
          /\ snapshot.protocols[p].volumeUsdApprox24h \in Nat
          /\ snapshot.protocols[p].health \in {"ok", "degraded"}

\* C15: every snapshot that was returned, that the memory tier or the store
\* holds, or that a request carries as its result or as its previous snapshot,
\* has an entry for each of uniswap_v3, aave and compound, with a primary value, a
\* delta and a health of ok or degraded, whatever refreshes came before
C15_EverySourceHasAnEntry ==
    /\ mem.present => FullyFormed(mem.payload)
    /\ kvStore.present => FullyFormed(kvGetJson(kvStore).payload)
    /\ \A k \in 1..Len(defiLog) : defiLog[k].status = 200 => FullyFormed(defiLog[k].value)
    /\ \A q \in BagToSet(defiReqs) :
          /\ q.pc = "kvPut" => FullyFormed(q.final)
          /\ q.pc = "computing" /\ ~q.prev.isNull => FullyFormed(q.prev)

\* a refresh that finds every endpoint down on an empty isolate, then a forced
\* refresh in which only the entry of aave is missing: aave stays degraded at 0
\* and the two other sources are ok
C15_Witness ==
    /\ Len(defiLog) = 2
    /\ \A p \in Sources : defiLog[1].value.protocols[p] = Metric(0, 0, "degraded", "batch failed")
    /\ defiLog[2].value.protocols["aave"] = Metric(0, 0, "degraded", "aave failed")
    /\ defiLog[2].value.protocols["uniswap_v3"].health = "ok"
    /\ defiLog[2].value.protocols["compound"].health = "ok"
    /\ mem.present /\ mem.payload = defiLog[2].value

\* C16: a GET is always answered 200 with a fully formed snapshot that names the
\* tier it came from, whatever the endpoints and the store do; a request that
\* has not been answered yet stands at an await that every outcome resolves
C16_AlwaysASnapshot ==
    /\ \A k \in 1..Len(defiLog) :
          /\ defiLog[k].status \in {200, 204, 405}
          /\ defiLog[k].status = 200
             => /\ FullyFormed(defiLog[k].value)
                /\ defiLog[k].value.cache
                      \in {[hit |-> TRUE, layer |-> "memory"], [hit |-> TRUE, layer |-> "kv"],
                           [hit |-> FALSE, layer |-> "live"]}
                /\ defiLog[k].value.cache.hit = ~defiLog[k].live
    /\ \A q \in BagToSet(defiReqs) : q.pc \in {"kvHit", "kvPrev", "computing", "kvPut"}

\* the store is bound but its reads and writes fail and every endpoint is down:
\* the first read of the isolate is answered 200 with the three sources degraded
C16_Witness ==
    /\ hasKv /\ ~kvStore.present
    /\ Len(defiLog) = 1
    /\ defiLog[1].status = 200 /\ ~defiLog[1].force /\ defiLog[1].live
    /\ \A p \in Sources :
          defiLog[1].value.protocols[p] = Metric(0, 0, "degraded", "batch failed")
    /\ defiLog[1].value.blockNumber = -1

-----------------------------------------------------------------------------
(* Properties of computeDefi as a function                                 *)

\* what computeDefi makes, at time t, of the same previous snapshot and of the
\* same batch results, whichever endpoint delivered them
Reruns(t) ==
    {computeDefi(aggPrev, t, out).next :
        out \in {o \in RaceOutcomes(aggResps) : o.ok = aggOut.ok /\ o.text = aggOut.text}}

\* the snapshot without the time of its computation
StripUpdatedAt(snapshot) == [snapshot EXCEPT !.updatedAt = 0]

\* C18 as the specification states it: two runs of computeDefi on the same
\* previous snapshot and the same batch results produce the same snapshot
C18_Deterministic ==
    aggPc = "done" => \A t \in {AggNow, AggNow + 1} : \A n \in Reruns(t) : n = aggNext

\* C18: two runs of computeDefi on the same previous snapshot and the same batch
\* results produce snapshots that are equal in every field but updatedAt,
\* whatever the time of each run and whichever endpoint won the race
C18_DeterministicButUpdatedAt ==
    aggPc = "done"
    => \A t \in {AggNow, AggNow + 1} :
          \A n \in Reruns(t) : StripUpdatedAt(n) = StripUpdatedAt(aggNext)

\* a full batch delivered by any of three endpoints over a previous snapshot:
\* a second run a millisecond later differs from the first in updatedAt only
C18_Witness ==
    /\ aggPc = "done"
    /\ aggOut.ok
    /\ Cardinality(RaceOutcomes(aggResps)) = 3
    /\ ~aggPrev.isNull
    /\ \A p \in Sources : aggNext.protocols[p].health = "ok"
    /\ aggNext.protocols["uniswap_v3"].volumeUsdApprox24h > 0
    /\ computeDefi(aggPrev, AggNow + 1, aggOut).next # aggNext
    /\ StripUpdatedAt(computeDefi(aggPrev, AggNow + 1, aggOut).next) = StripUpdatedAt(aggNext)

-----------------------------------------------------------------------------
(* Properties of the race router under cancellation and of its handler      *)

\* C17: the step in which the caller's signal fires during a race aborts the
\* controller of every attempt that is still pending, and an attempt whose
\* controller is aborted can only leave the pending state by rejecting with the
\* abort; an attempt that is pending always has its listener on the signal or
\* an aborted controller
C17_CancellationAbortsEveryAttempt ==
    [][/\ (racePc # "idle" /\ ~parentAborted /\ parentAborted')
          => \A i \in Attempts : att[i].st = "pending" => att'[i].aborted
       /\ \A i \in Attempts :
             (racePc # "idle" /\ att[i].st = "pending")
             => /\ att[i].listener \/ att[i].aborted
                /\ (att[i].aborted /\ att'[i].st # "pending")
                   => att'[i].out = Rejected(i, "AbortError", 0)
      ]_vars

\* the first attempt has failed and the caller cancels before the deadline of the
\* timers: the two attempts still in flight have their controllers aborted by
\* their listeners
C17_Witness ==
    /\ racePc # "idle"
    /\ parentAborted
    /\ Len(att) = 3
    /\ att[1].st = "rejected" /\ ~att[1].aborted
    /\ \A i \in {2, 3} :
          att[i].st = "pending" /\ att[i].aborted /\ ~att[i].listener /\ att[i].timer
    /\ raceNow < TIMEOUT_MS

\* a JSON-RPC request object, or a batch of them
IsRpcRequest(json) == json.kind = "object" /\ {"jsonrpc", "method"} \subseteq json.keys

ValidRpcPayload(text) ==
    /\ text.parses
    /\ \/ IsRpcRequest(text.json)
       \/ /\ text.json.kind = "array"
          /\ Len(text.json.items) > 0
          /\ \A k \in DOMAIN text.json.items : IsRpcRequest(text.json.items[k])

\* C19: the handler dispatches attempts only for a payload that is a JSON-RPC
\* request or a batch of requests; any other payload is answered with a client
\* error and no attempt is made for it
C19_MalformedPayloadNotDispatched ==
    rpcPc \in {"awaitRace", "done"} /\ racePc # "idle" => ValidRpcPayload(payload)

\* the step in which the handler resumes after a race that failed answers 500
\* with {jsonrpc, id, error: {code: -32000, message: "RPC_ROUTING_FAILED"}}, id
\* being the id of the request, and nothing of the errors of the attempts; 500
\* is answered in no other case
TotalFailureAnswered500 ==
    /\ (rpcPc = "awaitRace" /\ rpcPc' = "done" /\ ~raceOut.ok)
       => rpcResp' = [status |-> 500, body |-> TextOf(RpcError(RequestId(payload.json))),
                      message |-> "RPC_ROUTING_FAILED", fastest |-> 0, elapsedMs |-> 0]
    /\ (rpcPc # "done" /\ rpcPc' = "done" /\ rpcResp'.status = 500)
       => rpcPc = "awaitRace" /\ racePc = "failed" /\ PromiseAnyRejects(att)
    /\ rpcPc' = "done" => rpcResp'.status \in {200, 204, 400, 405, 500}

\* C20 as the specification states it: 500 with a generic error envelope on total
\* race failure, and 405 on every method other than POST
C20_NonPostIs405 ==
    [][/\ TotalFailureAnswered500
       /\ \A m \in RequestMethods, b \in RequestBodies, a \in BOOLEAN :
             (m # "POST" /\ handleEdgeRpcRouter(m, b, a))
             => rpcResp'.status = 405 /\ rpcPc' = "done"
      ]_vars

\* C20: 500 with a generic error envelope on total race failure; 405 on every
\* method other than POST and OPTIONS, and 204 on OPTIONS, with no attempt made;
\* the handler always ends with a response
C20_ErrorResponses ==
    [][/\ TotalFailureAnswered500
       /\ \A m \in RequestMethods, b \in RequestBodies, a \in BOOLEAN :
             (m # "POST" /\ handleEdgeRpcRouter(m, b, a))
             => /\ rpcResp'.status = IF m = "OPTIONS" THEN 204 ELSE 405
                /\ rpcResp'.status = 405
                   => /\ rpcResp'.body = TextOf(RpcError(0))
                      /\ rpcResp'.message = "METHOD_NOT_ALLOWED"
                /\ rpcPc' = "done"
                /\ racePc' = "idle"
      ]_vars

\* the three attempts for request 7 have all been rejected and the handler has
\* answered 500 with the error envelope for id 7
C20_Witness ==
    /\ rpcPc = "done"
    /\ racePc = "failed"
    /\ Len(att) = 3 /\ PromiseAnyRejects(att)
    /\ ~raceOut.ok /\ Len(raceOut.errors) = 3
    /\ payload = TextOf(RpcRequestJson(7))
    /\ rpcResp.status = 500
    /\ rpcResp.body = TextOf(RpcError(7))
    /\ rpcResp.message = "RPC_ROUTING_FAILED"

-----------------------------------------------------------------------------
(* Properties of the decoding of the sub-call results                      *)

\* the ids whose result in the batch is the quantity zero
ZeroIds(json) ==
    {json.items[k].id :
        k \in {j \in DOMAIN json.items :
                 /\ GoodEntry(json.items[j])
                 /\ \A d \in DOMAIN json.items[j].result.digits :
                       json.items[j].result.digits[d] = 0}}

Weight100(p) == IF p = "uniswap_v3" THEN 25 ELSE IF p = "aave" THEN 20 ELSE 15

\* C22: a source whose sub-calls all answered and one of whose raw values is 0x0
\* gets the primary value 0 with health ok, and its delta is the weighted
\* distance from its previous value to 0
C22_ZeroIsAValue ==
    (aggPc = "done" /\ aggOut.ok /\ SuccessfulButMissing(aggOut.text.json))
    => \A p \in Sources :
          (Deps(p) \subseteq GoodIds(aggOut.text.json)
           /\ Deps(p) \cap ZeroIds(aggOut.text.json) # {})
          => /\ aggNext.protocols[p].tvlUsdApprox = 0
             /\ aggNext.protocols[p].health = "ok"
             /\ aggNext.protocols[p].volumeUsdApprox24h
                   = Weight100(p) * (IF aggPrev.isNull THEN 0
                                     ELSE aggPrev.protocols[p].tvlUsdApprox)

\* liquidity() answers 0x0 over a previous snapshot in which uniswap_v3 was worth
\* 7: the new value is 0, ok, with a delta of 7 * 0.25
C22_Witness ==
    /\ aggPc = "done"
    /\ aggOut.ok
    /\ SuccessfulButMissing(aggOut.text.json)
    /\ ZeroIds(aggOut.text.json) = {2}
    /\ ~aggPrev.isNull
    /\ aggPrev.protocols["uniswap_v3"].tvlUsdApprox = 7
    /\ aggNext.protocols["uniswap_v3"] = Metric(0, 175, "ok", "pool.liquidity()")
    /\ aggNext.protocols["aave"].health = "ok"

-----------------------------------------------------------------------------
(* Properties of the order and of the contents of the tiers                *)

\* the response made by this step, when it makes one
Answered == defiLog' # defiLog

Answer == defiLog'[Len(defiLog')]

\* C21: a response is annotated memory only when the memory tier held an entry
\* that had not expired when the request arrived, and it carries that entry; kv
\* only when a request that had missed the memory tier found an unexpired
\* envelope in the store, and it carries the payload of that envelope; live only
\* when it ends a live computation made for that request
C21_AnnotationNamesServingTier ==
    [][(Answered /\ Answer.status = 200)
       => \/ /\ Answer.value.cache = [hit |-> TRUE, layer |-> "memory"]
             /\ ~Answer.live
             /\ defiReqs = EmptyBag
             /\ mem.present /\ defiNow <= mem.expiresAt
             /\ StripCache(Answer.value) = StripCache(mem.payload)
          \/ /\ Answer.value.cache = [hit |-> TRUE, layer |-> "kv"]
             /\ ~Answer.live
             /\ \E q \in BagToSet(defiReqs) : q.pc = "kvHit" /\ q.startedAt = Answer.startedAt
             /\ ~mem.present \/ defiNow > mem.expiresAt
             /\ kvStore.present /\ defiNow <= kvStore.expiresAt
             /\ StripCache(Answer.value) = StripCache(JSONparse(kvStore.payload))
          \/ /\ Answer.value.cache = [hit |-> FALSE, layer |-> "live"]
             /\ Answer.live
             /\ \E q \in BagToSet(defiReqs) :
                   /\ q.pc \in {"computing", "kvPut"}
                   /\ q.startedAt = Answer.startedAt
                   /\ Answer.value.updatedAt >= q.startedAt
      ]_vars

\* a live read, then, a TTL later and in a new isolate, a read answered from the
\* store with the snapshot of the first
C21_Witness ==
    /\ Len(defiLog) = 2
    /\ defiLog[1].status = 200 /\ defiLog[1].live
    /\ defiLog[1].value.cache = [hit |-> FALSE, layer |-> "live"]
    /\ defiLog[2].status = 200 /\ ~defiLog[2].live
    /\ defiLog[2].value.cache = [hit |-> TRUE, layer |-> "kv"]
    /\ StripCache(defiLog[1].value) = StripCache(defiLog[2].value)
    /\ defiLog[1].value.protocols["aave"].health = "ok"
    /\ defiLog[2].startedAt = defiLog[1].startedAt + DEFI_TTL_MS

\* C23: of two snapshots returned one after the other by the same isolate, the
\* second being the outcome of a refresh, a source that is degraded in the second
\* keeps the value it had in the first, and a source that is ok has its delta
\* computed against the value it had in the first
C23_RefreshBuildsOnPrecedingSnapshot ==
    (/\ Len(defiLog) = 2
     /\ defiLog[1].status = 200 /\ defiLog[2].status = 200
     /\ defiLog[1].lone /\ defiLog[2].lone
     /\ defiLog[2].live)
    => \A p \in Sources :
          LET before == defiLog[1].value.protocols[p]
              after == defiLog[2].value.protocols[p]
          IN IF after.health = "degraded"
             THEN after.tvlUsdApprox = before.tvlUsdApprox
             ELSE after.volumeUsdApprox24h
                    = Weight100(p) * Abs(after.tvlUsdApprox - before.tvlUsdApprox)

\* the snapshot computeDefi returns when the race for the batch failed
OfTotalFailure(snapshot) ==
    \A p \in Sources :
        snapshot.protocols[p].health = "degraded" /\ snapshot.protocols[p].notes = "batch failed"

\* C24: the outcome of a computation whose batch race failed is not installed in
\* the cache: neither tier holds it and no read is answered with it from a tier
C24_TotalFailureNotCached ==
    /\ mem.present => ~OfTotalFailure(mem.payload)
    /\ kvStore.present => ~OfTotalFailure(JSONparse(kvStore.payload))
    /\ \A k \in 1..Len(defiLog) :
          defiLog[k].status = 200 /\ defiLog[k].value.cache.hit
          => ~OfTotalFailure(defiLog[k].value)

-----------------------------------------------------------------------------
(* Properties of the two phases of raceRpc and of the attempts' timers      *)

\* C25: phase 1 of the race: Promise.race follows the attempt that settles first
\* and no later settlement replaces it; when that attempt is a success, raceRpc
\* resumes by returning that attempt's url, text and elapsedMs, in one step that
\* settles no other attempt, however many of them are still pending.
C25_FirstSettledSuccessReturned ==
    [][ /\ \A i \in Attempts :
              (PendingSet = Attempts /\ att'[i].st # "pending") => firstSettled' = i
        /\ firstSettled # 0 => firstSettled' = firstSettled
        /\ (racePc = "phase1" /\ racePc' # "phase1" /\ firstSettled # 0
               /\ att[firstSettled].st = "fulfilled")
           => /\ racePc' = "returned"
              /\ raceOut' = RaceSuccess(att[firstSettled].out)
              /\ att' = att ]_vars

C25_Witness ==
    /\ racePc = "returned"
    /\ Len(rpcUrls) = 3
    /\ firstSettled = 2
    /\ raceOut.url = 2
    /\ raceOut.text = att[2].res.text
    /\ PendingSet = {1, 3}

\* the attempts that were aborted by their own timer
TimedOut(i) == att[i].aborted /\ ~att[i].timer /\ ~parentAborted

\* C26: every attempt has its own timer of 4000 ms: a timer fires no earlier than
\* 4000 ms after the attempts were started and aborts its own attempt only; an
\* attempt that has settled, by a success, a failure, a timeout or an abort, has
\* its timer cleared and its listener on the parent signal removed, so that once
\* all the attempts have settled no timer and no listener is left.
C26_TimersIndependentAndCleared ==
    /\ [](\A i \in Attempts : att[i].st # "pending" => ~att[i].timer /\ ~att[i].listener)
    /\ [](PendingSet = {} => \A i \in DOMAIN att : ~att[i].timer /\ ~att[i].listener)
    /\ [][ \A i \in Attempts :
              (att[i].timer /\ ~att'[i].timer /\ att'[i].st = "pending")
              => /\ raceNow >= TIMEOUT_MS
                 /\ att'[i].aborted
                 /\ \A j \in Attempts \ {i} : att'[j] = att[j] ]_vars

C26_Witness ==
    /\ Len(rpcUrls) = 3
    /\ PendingSet = {}
    /\ TimedOut(1) /\ att[1].out.message = "AbortError"
    /\ att[2].st = "fulfilled"
    /\ att[3].st = "rejected" /\ att[3].out.message = "HTTP"
    /\ \A i \in Attempts : ~att[i].timer /\ ~att[i].listener

-----------------------------------------------------------------------------
(* Properties of the order in which a read goes through the tiers          *)

\* the number of non-forced reads in flight at pc
NonForcedAt(reqs, pc) ==
    LET S == {q \in BagToSet(reqs) : q.pc = pc /\ ~q.force}
    IN BagCardinality([q \in S |-> CopiesIn(q, reqs)])

Entered(pc) == NonForcedAt(defiReqs', pc) > NonForcedAt(defiReqs, pc)

LeftPc(pc) == NonForcedAt(defiReqs', pc) < NonForcedAt(defiReqs, pc)

Arrival == defiCount' = defiCount + 1

FreshMemory == mem.present /\ defiNow <= mem.expiresAt

FreshEnvelope == kvStore.present /\ defiNow <= kvStore.expiresAt

\* C27: a non-forced read goes through the tiers in order: it starts reading the
\* durable tier only when it arrives and memory has no fresh entry; it reads the
\* durable tier for prev only after its first durable read missed; its live
\* computation starts only after a durable read that missed (or, without a store,
\* on arrival with a memory miss); a read that arrives on a fresh memory entry
\* starts no durable read and no computation and leaves the store alone.
C27_TiersInOrder ==
    [][ /\ Entered("kvHit") => Arrival /\ ~FreshMemory /\ hasKv
        /\ Entered("kvPrev") => LeftPc("kvHit") /\ ~FreshMemory
        /\ Entered("computing") =>
              \/ LeftPc("kvPrev")
              \/ LeftPc("kvHit") /\ FreshMemory
              \/ Arrival /\ ~hasKv /\ ~FreshMemory
        /\ \A q \in BagToSet(defiReqs) :
              (~q.force /\ defiKvHitResolves(q, TRUE) /\ FreshEnvelope)
              => ~Entered("kvPrev") /\ ~Entered("computing")
        /\ (Arrival /\ FreshMemory) =>
              /\ \A pc \in {"kvHit", "kvPrev", "computing", "kvPut"} : ~Entered(pc)
              /\ kvStore' = kvStore /\ mem' = mem ]_vars

C27_Witness ==
    /\ hasKv
    /\ defiReqs = EmptyBag
    /\ Len(defiLog) = 2
    /\ defiLog[1].live /\ ~defiLog[1].force /\ defiLog[1].value.cache.layer = "live"
    /\ ~defiLog[2].force /\ defiLog[2].value.cache.layer = "memory"
    /\ defiLog[2].startedAt = DEFI_TTL_MS
    /\ kvStore.present

-----------------------------------------------------------------------------
(* Properties of the write-through and of the promotion                    *)

LastAnswer(log) == log[Len(log)]

\* C28: a live recomputation puts its snapshot in memory with expiresAt = time of
\* the write + 30 s and hands the store an envelope with the same expiresAt and
\* payload, both before it answers: when the response is returned memory holds the
\* returned snapshot, and so does the store when the put succeeded; a non-forced
\* GET that arrives next, no later than that expiresAt, is answered from memory
\* with the same snapshot, the cache annotation apart.
C28_WriteThroughBeforeResponse ==
    [][ /\ \A q \in BagToSet(defiReqs) :
              (q.pc = "computing" /\ defiReqs' = defiReqs (-) One(q))
              => /\ mem' = Entry(defiNow + DEFI_TTL_MS, LastAnswer(defiLog').value)
                 /\ ~hasKv
                 /\ LastAnswer(defiLog').live
                 /\ LastAnswer(defiLog').value.cache = [hit |-> FALSE, layer |-> "live"]
        /\ \A q \in BagToSet(defiReqs) :
              (q.pc = "computing" /\ defiReqs' # defiReqs (-) One(q) /\ defiReqs' # defiReqs)
              => /\ hasKv
                 /\ defiLog' = defiLog
                 /\ \E w \in BagToSet(defiReqs') :
                       /\ w.pc = "kvPut"
                       /\ w.expiresAt = defiNow + DEFI_TTL_MS
                       /\ mem' = Entry(w.expiresAt, w.final)
        /\ \A q \in BagToSet(defiReqs) :
              (q.pc = "kvPut" /\ defiReqs' = defiReqs (-) One(q))
              => /\ mem = Entry(q.expiresAt, LastAnswer(defiLog').value)
                 /\ mem' = mem
                 /\ LastAnswer(defiLog').live
                 /\ LastAnswer(defiLog').value.cache = [hit |-> FALSE, layer |-> "live"]
                 /\ defiKvPutResolves(q, TRUE)
                    => /\ kvStore'.present
                       /\ kvStore'.expiresAt = mem.expiresAt
                       /\ JSONparse(kvStore'.payload) = mem.payload
        /\ (/\ Arrival
            /\ defiReqs = EmptyBag
            /\ defiLog # <<>>
            /\ LastAnswer(defiLog).live
            /\ defiNow <= LastAnswer(defiLog).expiresAt)
           => \/ \E q \in BagToSet(defiReqs') : q.force
              \/ /\ defiReqs' = EmptyBag
                 /\ LastAnswer(defiLog').status \in {204, 405}
              \/ /\ defiReqs' = EmptyBag
                 /\ LastAnswer(defiLog').status = 200
                 /\ ~LastAnswer(defiLog').live
                 /\ LastAnswer(defiLog').value.cache = [hit |-> TRUE, layer |-> "memory"]
                 /\ StripCache(LastAnswer(defiLog').value)
                      = StripCache(LastAnswer(defiLog).value) ]_vars

C28_Witness ==
    /\ hasKv
    /\ defiReqs = EmptyBag
    /\ Len(defiLog) = 2
    /\ defiLog[1].live /\ defiLog[1].startedAt = DEFI_TTL_MS
    /\ defiLog[1].value.protocols["aave"].health = "ok"
    /\ defiLog[2].startedAt = 2 * DEFI_TTL_MS
    /\ ~defiLog[2].force /\ defiLog[2].value.cache.layer = "memory"
    /\ mem.expiresAt = 2 * DEFI_TTL_MS
    /\ kvStore.present /\ kvStore.expiresAt = mem.expiresAt

\* C29: a read answered from the durable tier has put the payload of the envelope
\* in memory with expiresAt = time of the promotion + 30 s, whatever is left of
\* the envelope's own lifetime; the non-forced reads that follow in the same
\* isolate, up to that expiresAt, are answered from memory with that payload,
\* also once the envelope itself has expired.
C29_DurableHitPromoted ==
    [][ /\ \A q \in BagToSet(defiReqs) :
              (q.pc = "kvHit" /\ defiReqs' = defiReqs (-) One(q))
              => /\ FreshEnvelope
                 /\ mem' = Entry(defiNow + DEFI_TTL_MS, JSONparse(kvStore.payload))
                 /\ LastAnswer(defiLog').value
                      = WithCache(JSONparse(kvStore.payload), TRUE, "kv")
                 /\ LastAnswer(defiLog').expiresAt = defiNow + DEFI_TTL_MS
                 /\ kvStore' = kvStore
        /\ (/\ Arrival
            /\ defiReqs = EmptyBag
            /\ defiLog # <<>>
            /\ LastAnswer(defiLog).status = 200
            /\ LastAnswer(defiLog).value.cache.layer = "kv"
            /\ mem.present
            /\ defiNow <= LastAnswer(defiLog).expiresAt)
           => /\ defiReqs' = EmptyBag
              /\ LastAnswer(defiLog').status = 200
              /\ LastAnswer(defiLog').value
                   = WithCache(LastAnswer(defiLog).value, TRUE, "memory")
              /\ LastAnswer(defiLog').startedAt = defiNow ]_vars

C29_Witness ==
    /\ Len(defiLog) = 2
    /\ defiLog[1].value.cache.layer = "kv"
    /\ defiLog[1].startedAt = DEFI_TTL_MS
    /\ defiLog[2].value.cache.layer = "memory"
    /\ defiLog[2].startedAt = 2 * DEFI_TTL_MS
    /\ kvStore.expiresAt = DEFI_TTL_MS
    /\ mem.present /\ mem.expiresAt = 2 * DEFI_TTL_MS
    /\ mem.payload.protocols["uniswap_v3"].health = "ok"

\* the store returns an envelope whose embedded expiresAt has passed
ExpiredEnvelope == kvStore.present /\ defiNow > kvStore.expiresAt

Resolves(q) == CopiesIn(q, defiReqs') < CopiesIn(q, defiReqs)

\* C30: when the store returns an envelope whose embedded expiresAt has passed,
\* the read that was waiting for it is not answered and memory is left as it was:
\* the read goes on to the second durable read, which does not take the envelope
\* as prev either, and the live computation starts from no previous snapshot.
C30_EmbeddedExpiryAuthoritative ==
    [][ \A q \in BagToSet(defiReqs) :
          ExpiredEnvelope =>
            /\ (q.pc = "kvHit" /\ Resolves(q))
               => /\ defiLog' = defiLog
                  /\ mem' = mem
                  /\ \E w \in BagToSet(defiReqs') : w.pc = "kvPrev" /\ w.prev.isNull
            /\ (q.pc = "kvPrev" /\ Resolves(q))
               => /\ defiLog' = defiLog
                  /\ mem' = mem
                  /\ \E w \in BagToSet(defiReqs') : w.pc = "computing" /\ w.prev.isNull ]_vars

C30_Witness ==
    /\ defiNow = 2 * DEFI_TTL_MS
    /\ kvStore.present /\ kvStore.expiresAt = DEFI_TTL_MS
    /\ JSONparse(kvStore.payload).protocols["aave"].health = "ok"
    /\ ~mem.present
    /\ defiLog = <<>>
    /\ \E q \in BagToSet(defiReqs) :
          q.pc = "computing" /\ q.prev.isNull /\ q.startedAt = 2 * DEFI_TTL_MS

-----------------------------------------------------------------------------
(* Properties of the memory tier as a Map                                  *)

\* C31: an entry of the memory tier disappears only in a call of memGet on its
\* own key that finds it past its expiresAt; a step changes the entry of one key
\* at most; memPut(key, ...) sets the entry of key and no other; memGet(key) leaves
\* an entry that has not expired as it is; the passing of time removes nothing.
C31_LazyEvictionOwnKeyOnly ==
    [][ /\ \A k \in CacheKeys :
              (memCache[k].present /\ ~memCache'[k].present)
              => memGetCall(k) /\ memNow > memCache[k].expiresAt /\ memRet'.isNull
        /\ \A k \in CacheKeys :
              memCache'[k] # memCache[k]
              => \A j \in CacheKeys \ {k} : memCache'[j] = memCache[j]
        /\ \A k \in CacheKeys, snap \in MemPayloads :
              memPutCall(k, snap)
              => /\ memCache'[k] = Entry(memNow + DEFI_TTL_MS, snap)
                 /\ \A j \in CacheKeys \ {k} : memCache'[j] = memCache[j]
        /\ \A k \in CacheKeys :
              (memGetCall(k) /\ memCache[k].present /\ memNow <= memCache[k].expiresAt)
              => memCache' = memCache /\ memRet' = memCache[k].payload
        /\ memNow' # memNow => memCache' = memCache ]_vars

C31_Witness ==
    /\ memNow = 2 * DEFI_TTL_MS
    /\ ~memCache["defi_v1_A"].present
    /\ memRet.isNull
    /\ memCache["defi_v1_B"].present
    /\ memCache["defi_v1_B"].expiresAt = DEFI_TTL_MS

-----------------------------------------------------------------------------
(* Properties of the number of outbound calls of a race                    *)

Settled == Attempts \ PendingSet

\* C32: a call of raceRpc makes one attempt for each endpoint it was given and
\* none afterwards: the attempts are those created at the call, each names its own
\* endpoint, each settles once, an attempt that has settled is not started again,
\* and neither phase 2 nor the return creates an attempt, so that the race issues
\* exactly Len(rpcUrls) outbound requests; the race is entered once per call.
C32_OneCallPerEndpoint ==
    /\ [](racePc # "idle" =>
            /\ Len(att) = Len(rpcUrls)
            /\ Len(att) <= MaxEndpoints
            /\ nSettled = Cardinality(Settled)
            /\ \A i \in Settled : att[i].out.url = i)
    /\ [][ racePc # "idle" =>
            /\ DOMAIN att' = DOMAIN att
            /\ rpcUrls' = rpcUrls /\ payload' = payload
            /\ \A i \in Settled : att'[i] = att[i]
            /\ racePc' # "idle"
            /\ racePc' = "phase1" => racePc = "phase1" ]_vars

C32_Witness ==
    /\ racePc = "returned"
    /\ Len(att) = 3
    /\ nSettled = 3
    /\ Cardinality(pendingAtDowngrade) = 2
    /\ att[1].st = "rejected" /\ att[2].st = "rejected"
    /\ raceOut.url = 3

-----------------------------------------------------------------------------
(* Properties of the local aggregator against the edge function            *)

SameHealthAndValues(a, b) ==
    \A p \in Sources :
        /\ a.protocols[p].health = b.protocols[p].health
        /\ a.protocols[p].tvlUsdApprox = b.protocols[p].tvlUsdApprox
        /\ a.protocols[p].volumeUsdApprox24h = b.protocols[p].volumeUsdApprox24h

\* C33: getDefiStorm mirrors edgeDefiAggregator: whenever the edge function has
\* computed a snapshot from a cached state and an upstream outcome, getDefiStorm
\* computes from the same cached state and outcome a snapshot with the same health
\* and the same values for every source, and both serve the cache under the same
\* freshness rule.
C33_LocalMirrorsEdge ==
    /\ edgeResp.live =>
          SameHealthAndValues(edgeResp.value,
                              getDefiStorm(edgeResp.prev, edgeResp.value.updatedAt,
                                           IF edgeResp.res = NoResponse
                                           THEN [ok |-> FALSE, json |-> JNull]
                                           ELSE rpcViaEdgeRouter(edgeResp.res)))
    /\ \A force \in BOOLEAN :
          getDefiStormCached(force, edgeCache, edgeNow)
          <=> (~force /\ edgeCache.present /\ edgeNow - edgeCache.updatedAtMs < EDGE_TTL_MS)

-----------------------------------------------------------------------------
(* Termination of a race                                                   *)

\* C34: every call of raceRpc terminates, whatever the endpoints do: once the
\* attempts are started every attempt settles, by a response, a failure or the
\* abort of its 4000 ms timer, and raceRpc returns a success or throws the
\* aggregate error.
C34_RaceTerminates ==
    /\ (racePc = "phase1") ~> (PendingSet = {})
    /\ (racePc = "phase1") ~> RaceDecided

C34_Witness ==
    /\ racePc = "failed"
    /\ Len(att) = 3
    /\ raceNow = TIMEOUT_MS
    /\ ~parentAborted
    /\ \A i \in Attempts : att[i].aborted /\ att[i].out.message = "AbortError"

-----------------------------------------------------------------------------
(* Properties of the health computeDefi reports                            *)

NoUsableResult == ~aggOut.ok \/ ~aggOut.text.parses \/ aggOut.text.json.kind # "array"

\* C35: in the snapshot computeDefi returns a source is ok only if its value was
\* decoded from the batch response of that run; when the race failed or the winning
\* response is not an array, no source is ok.
C35_OkOnlyWhenDecodedInRun ==
    aggPc = "done" =>
        /\ NoUsableResult => \A p \in Sources : aggNext.protocols[p].health # "ok"
        /\ \A p \in Sources :
              aggNext.protocols[p].health = "ok"
              => ~NoUsableResult /\ Deps(p) \subseteq GoodIds(aggOut.text.json)

-----------------------------------------------------------------------------
(* Properties of the age of what the tiers serve                           *)

\* when a response read its tier: a memory hit on arrival, a durable hit when
\* the read of the store resolved
ReadTime(r) ==
    IF r.value.cache.layer = "memory" THEN r.startedAt ELSE r.expiresAt - DEFI_TTL_MS

\* the isolate has computed nothing itself: every request so far was answered from
\* a tier, so what it serves is the envelope another isolate stored, which
\* kvPutPayload made when that computation returned (expiresAt = that time + 30 s)
OnlyHitsSoFar ==
    /\ defiCount = Len(defiLog)
    /\ \A j \in 1..Len(defiLog) : defiLog[j].status = 200 /\ defiLog[j].value.cache.hit

InStore(snapshot) ==
    kvStore.present /\ StripCache(JSONparse(kvStore.payload)) = StripCache(snapshot)

CompletedAt == kvStore.expiresAt - DEFI_TTL_MS

\* C36 as the specification states it: a snapshot served from the memory or the
\* durable tier was produced by a live computation that completed at most 30 s
\* before the read
C36_ServedWithinOneTtl ==
    OnlyHitsSoFar
    => \A k \in 1..Len(defiLog) :
          InStore(defiLog[k].value) /\ ReadTime(defiLog[k]) - CompletedAt <= DEFI_TTL_MS

\* C36: a snapshot served from the durable tier was produced by a computation that
\* completed at most 30 s before the read, and one served from memory at most 60 s
\* before: both tiers are written with expiresAt = completion + 30 s, a durable hit
\* is taken no later than the envelope's expiresAt and restarts the 30 s in memory,
\* and a memory hit is taken no later than the entry's expiresAt.
C36_ServedWithinTwoTtls ==
    /\ [](OnlyHitsSoFar
          => \A k \in 1..Len(defiLog) :
                /\ InStore(defiLog[k].value)
                /\ ReadTime(defiLog[k]) - CompletedAt
                      <= IF defiLog[k].value.cache.layer = "kv" THEN DEFI_TTL_MS
                         ELSE 2 * DEFI_TTL_MS)
    /\ [][ /\ \A q \in BagToSet(defiReqs) :
                 (q.pc = "kvHit" /\ defiReqs' = defiReqs (-) One(q))
                 => /\ defiNow <= kvStore.expiresAt
                    /\ mem'.expiresAt = defiNow + DEFI_TTL_MS
                    /\ InStore(mem'.payload)
           /\ (Arrival /\ defiReqs' = defiReqs)
              => /\ mem.present /\ defiNow <= mem.expiresAt
                 /\ LastAnswer(defiLog').value = WithCache(mem.payload, TRUE, "memory")
           /\ \A q \in BagToSet(defiReqs), out \in DefiOutcomes :
                 defiComputeReturns(q, out)
                 => mem' = Entry(defiNow + DEFI_TTL_MS,
                                 WithCache(computeDefi(q.prev, q.liveAt, out).next,
                                           FALSE, "live"))
           /\ \A q \in BagToSet(defiReqs) :
                 defiKvPutResolves(q, TRUE)
                 => /\ kvStore'.expiresAt = q.expiresAt
                    /\ mem = Entry(q.expiresAt, q.final)
                    /\ JSONparse(kvStore'.payload) = q.final ]_vars

C36_Witness ==
    /\ Len(defiLog) = 2
    /\ defiLog[2].value.cache = [hit |-> TRUE, layer |-> "memory"]
    /\ OnlyHitsSoFar
    /\ InStore(defiLog[2].value)
    /\ CompletedAt = 0
    /\ defiLog[2].value.updatedAt = 0
    /\ ReadTime(defiLog[2]) = 2 * DEFI_TTL_MS
    /\ defiLog[2].value.protocols["compound"].health = "ok"

-----------------------------------------------------------------------------
(* Properties of overlapping live computations                             *)

\* the memory entry was written by a computation that started after q's: the
\* snapshot's updatedAt is the Date of the start of its computeDefi
WrittenByLaterStarted(q) ==
    mem.present /\ mem.payload.updatedAt > q.liveAt /\ mem.payload.updatedAt > q.startedAt

\* C37: when two live computations for the same key overlap in one process, the
\* one that started earlier never overwrites the memory entry written by the one
\* that started later, so that the cache ends with the later-started snapshot
C37_EarlierNeverOverwritesLater ==
    [][ \A q \in BagToSet(defiReqs), out \in DefiOutcomes :
           (defiComputeReturns(q, out) /\ WrittenByLaterStarted(q)) => mem' = mem ]_vars

-----------------------------------------------------------------------------
(* Properties of a signal that is aborted before the race                  *)

\* the attempt's listener is still on a parent signal that reads aborted: the
\* signal was aborted before withTimeout added the listener (ParentAbort and
\* dispose both leave no listener behind)
AbortedBeforeAttempt(i) == parentAborted /\ att[i].st = "pending" /\ att[i].listener

\* C38: if the caller's signal is already aborted when raceRpc is invoked, every
\* attempt is aborted at once and no outbound call of the race runs to completion
C38_AbortedAtCallStopsAttempts ==
    [][ /\ (racePc = "idle" /\ racePc' = "phase1" /\ parentAborted')
           => \A i \in 1..Len(rpcUrls') : att'[i].aborted
        /\ \A i \in Attempts : AbortedBeforeAttempt(i) => ~att'[i].gotRes ]_vars

-----------------------------------------------------------------------------
(* Properties of the two routers' classifications                          *)

\* C39: the edge router's tryRpc and the local router's tryRpc classify every
\* upstream response identically as success or failure
C39_SameClassification ==
    clsOut # "none" => ((clsOut = "success") <=> tryRpcLocal(1, clsRes, 0).ok)

====
